---- MODULE Spec2Model ----
(***************************************************************************)
(* Model of the WikiDocs synchronisation plugin (obsidian-wikidocs-plugin). *)
(*                                                                         *)
(* The vault is a set of files and folders; a path is a sequence of names   *)
(* and a name is a sequence of one-character strings, so that the string    *)
(* operations of the source (startsWith, replace, the sanitising regular    *)
(* expression) are computed on characters as the source computes them.      *)
(* Time is in milliseconds.                                                 *)
(***************************************************************************)
EXTENDS Integers, Sequences, FiniteSets, TLC

VARIABLES
    files,          \* vault: path -> [hasFM, fm, body, mtime]
    folders,        \* vault: set of folder paths
    remote,         \* server: page id -> [subject, parent_id, content, open_yn]
    nextId,         \* server: next page id to assign
    now,            \* wall clock, ms
    isSyncProcess,  \* part_004:39
    layout_ready,   \* part_004:40
    ops,            \* running sync operations: slot -> record
    handlers,       \* vault "create" handlers suspended at their file read
    log,            \* transport calls issued so far, in order
    notices,        \* Notice messages shown so far, in order
    written,        \* paths written by a sync operation and not touched by the user since
    clobbered,      \* paths of sync-written files later modified by the create handler
    faults,         \* transport faults injected so far
    userActs,       \* user actions on notes and folders still to come in the scenario
    apiToken,       \* settings.apiToken is set (part_003:14)
    recentRenamedFolderPaths,   \* part_004:155
    timers,         \* pending setTimeout callbacks of part_004:161-163
    events          \* vault "rename" events raised and not yet delivered

renameVars == <<recentRenamedFolderPaths, timers, events>>

vars == <<files, folders, remote, nextId, now, isSyncProcess, layout_ready,
          ops, handlers, log, notices, written, clobbered, faults, userActs,
          apiToken, renameVars>>

----------------------------------------------------------------------------
(* Bounds *)

MaxFaults == 2
MaxImages == 1
MaxTicks == 4
MaxUserActs == 1
SyncedAt == 1000
StartTime == 3000
TickMs == 500
FirstServerId == 10

(* Program constants *)

SyncEpsilonMs == 1000
DupThresholdSec == 1
MsPerSec == 1000
NewId == -1
RenameWindowMs == 1000

----------------------------------------------------------------------------
(* Characters, names and paths *)

MD == <<".", "m", "d">>
MetadataBase == <<"m", "e", "t", "a", "d", "a", "t", "a">>
MetadataName == MetadataBase \o MD
Slash == <<"/">>

ForbiddenChars == {"\\", "/", ":", "*", "?", "\"", "<", ">", "|"}

IsForbidden(c) == c \in ForbiddenChars

sanitizeFileName(s) == SelectSeq(s, LAMBDA c : ~IsForbidden(c))

(* s.startsWith(p) on character sequences *)
startsWith(s, p) == Len(p) <= Len(s) /\ SubSeq(s, 1, Len(p)) = p

(* index of the first occurrence of pat in s, 0 if none *)
IndexOf(s, pat) ==
    LET hits == {i \in 1..(Len(s) - Len(pat) + 1) : SubSeq(s, i, i + Len(pat) - 1) = pat}
    IN IF hits = {} THEN 0 ELSE CHOOSE i \in hits : \A j \in hits : i <= j

(* s.replace(pat, "") : removes the first occurrence only *)
RemoveFirst(s, pat) ==
    LET i == IndexOf(s, pat)
    IN IF i = 0 THEN s ELSE SubSeq(s, 1, i - 1) \o SubSeq(s, i + Len(pat), Len(s))

RECURSIVE PathStr(_)
PathStr(p) ==
    IF Len(p) = 0 THEN <<>>
    ELSE IF Len(p) = 1 THEN p[1]
    ELSE PathStr(SubSeq(p, 1, Len(p) - 1)) \o Slash \o p[Len(p)]

FileName(p) == p[Len(p)]
ParentPath(p) == SubSeq(p, 1, Len(p) - 1)

(* the last "/"-separated part of the path string, with the first ".md" removed *)
extractTitleFromFilePath(p) == RemoveFirst(FileName(p), MD)

(* TFile.extension === "md" : the text after the last dot of the name *)
HasMdExtension(p) ==
    LET n == FileName(p)
    IN Len(n) >= Len(MD) /\ SubSeq(n, Len(n) - 2, Len(n)) = MD

(* TFile.basename : the name without its extension *)
BaseName(p) ==
    LET n == FileName(p)
    IN IF HasMdExtension(p) THEN SubSeq(n, 1, Len(n) - Len(MD)) ELSE n

IsSentinel(p) == FileName(p) = MetadataName

----------------------------------------------------------------------------
(* Header codec.                                                            *)
(* A stored header is the text of its six lines: id, book_id, parent_id and *)
(* last_synced are <<>> (nothing written) or <<v>>, subject is the          *)
(* characters written after "subject: ", open_yn the word written.          *)
(* A PageMetadata object has id as an integer, the optional numeric fields  *)
(* as <<>> (undefined) or <<v>>, open_yn as a word or Undefined.            *)

Undefined == "undefined"
Digits == {"0", "1", "2", "3", "4", "5", "6", "7", "8", "9"}

Includes(s, c) == \E i \in 1..Len(s) : s[i] = c
Quote(s) == <<"\"">> \o s \o <<"\"">>

(* PageMetadata constructor: a subject holding "#" is wrapped in quotes *)
PageMetadata(id, subject, last_synced, book_id, parent_id, open_yn) ==
    [id |-> id,
     subject |-> IF Includes(subject, "#") THEN Quote(subject) ELSE subject,
     last_synced |-> last_synced,
     book_id |-> book_id,
     parent_id |-> parent_id,
     open_yn |-> open_yn]

OrMinusOne(opt) == IF opt = <<>> THEN <<NewId>> ELSE opt

getFrontMatter(md) ==
    [id |-> <<md.id>>,
     subject |-> md.subject,
     book_id |-> OrMinusOne(md.book_id),
     parent_id |-> OrMinusOne(md.parent_id),
     open_yn |-> md.open_yn,
     last_synced |-> md.last_synced]

(* What the YAML reader of the metadata cache makes of the subject line.    *)
(* kind "error": the block is not YAML (a colon followed by a space or the  *)
(* end of line inside a plain scalar, an unterminated quote); "null": empty *)
(* or a comment; "num": digits only; "str": a string, quotes removed.       *)
IsQuoted(s) == Len(s) >= 2 /\ s[1] = "\"" /\ s[Len(s)] = "\""
              /\ \A i \in 2..(Len(s) - 1) : s[i] # "\""
ColonBreaks(s) == \E i \in 1..Len(s) : s[i] = ":" /\ (i = Len(s) \/ s[i + 1] = " ")
CommentAt(s) ==
    LET hits == {i \in 1..Len(s) : s[i] = "#" /\ (i = 1 \/ s[i - 1] = " ")}
    IN IF hits = {} THEN 0 ELSE CHOOSE i \in hits : \A j \in hits : i <= j
YamlSubject(s) ==
    IF s = <<>> THEN [kind |-> "null", val |-> <<>>]
    ELSE IF s[1] = "\"" THEN
        IF IsQuoted(s) THEN [kind |-> "str", val |-> SubSeq(s, 2, Len(s) - 1)]
        ELSE [kind |-> "error", val |-> <<>>]
    ELSE IF ColonBreaks(s) THEN [kind |-> "error", val |-> <<>>]
    ELSE IF CommentAt(s) = 1 THEN [kind |-> "null", val |-> <<>>]
    ELSE IF CommentAt(s) > 1 THEN [kind |-> "str", val |-> SubSeq(s, 1, CommentAt(s) - 2)]
    ELSE IF \A i \in 1..Len(s) : s[i] \in Digits THEN [kind |-> "num", val |-> s]
    ELSE [kind |-> "str", val |-> s]

(* metadataCache.getFileCache(file)?.frontmatter exists *)
HasFrontMatterCache(f) == f.hasFM /\ YamlSubject(f.fm.subject).kind # "error"

Truthy(opt) == opt # <<>> /\ opt[1] # 0

(* PageMetadata.fromFrontMatter does not throw: id and subject are truthy,  *)
(* and the constructor can call subject.includes (subject is a string)      *)
FromFrontMatterOk(fm) ==
    /\ Truthy(fm.id)
    /\ YamlSubject(fm.subject).kind = "str"
    /\ YamlSubject(fm.subject).val # <<>>

fromFrontMatter(fm) ==
    PageMetadata(fm.id[1], YamlSubject(fm.subject).val, fm.last_synced,
                 fm.book_id, fm.parent_id, fm.open_yn)

(* extractMetadataFromFrontMatter(file) returns (does not throw) *)
CanExtractMetadata(f) == HasFrontMatterCache(f) /\ FromFrontMatterOk(f.fm)
extractMetadataFromFrontMatter(f) == fromFrontMatter(f.fm)

NoFM == [id |-> <<>>, subject |-> <<>>, book_id |-> <<>>, parent_id |-> <<>>,
         open_yn |-> Undefined, last_synced |-> <<>>]

(* Bodies are whole texts; Trim is String.prototype.trim on them *)
NoContentText == "No content available."
Trim(b) == CASE b = "Hello\n" -> "Hello"
             [] b = "\n" -> ""
             [] OTHER -> b

(* number of embedded image links of the text that resolve to image files *)
extractEmbeddedImages(b) == IF b = "![](p.png)" THEN MaxImages ELSE 0

removeFrontMatter(f) == Trim(f.body)
getPureContent(f) == Trim(f.body)

(* the text of the file is empty after trim: no header and a blank body *)
ContentIsBlank(f) == ~f.hasFM /\ Trim(f.body) = ""

----------------------------------------------------------------------------
(* Vault *)

Root == <<>>
FilePaths == DOMAIN files
Exists(p) == p \in FilePaths \/ p \in folders

IsUnder(p, folder) ==
    Len(p) > Len(folder) /\ SubSeq(p, 1, Len(folder)) = folder

(* TFolder.children *)
Children(folder) ==
    {p \in FilePaths \cup folders : Len(p) = Len(folder) + 1 /\ ParentPath(p) = folder}

Restrict(f, S) == [x \in S |-> f[x]]

(* vault after fileManager.trashFile(x): x and everything below it is gone *)
TrashFiles(x) == Restrict(files, {p \in FilePaths : p # x /\ ~IsUnder(p, x)})
TrashFolders(x) == {p \in folders : p # x /\ ~IsUnder(p, x)}

(* vault.create(path, ...) succeeds: nothing at the path, parent is a folder *)
CanCreate(p) == ~Exists(p) /\ ParentPath(p) \in folders

Put(f, p, v) == [x \in (DOMAIN f) \cup {p} |-> IF x = p THEN v ELSE f[x]]

(* getFiles().filter(file => file.path.startsWith(folder.path)) *)
FilesOfFolder(folder) ==
    {p \in FilePaths : startsWith(PathStr(p), PathStr(folder))}

(* getBookIdFromMetadata: <<>> for null, <<id>> otherwise *)
getBookIdFromMetadata(folder) ==
    LET p == Append(folder, MetadataName)
    IN IF p \in FilePaths /\ HasFrontMatterCache(files[p]) /\ Truthy(files[p].fm.id)
       THEN files[p].fm.id ELSE <<>>

----------------------------------------------------------------------------
(* Server (the transport collaborator) *)

NullContent == "<null>"

Outcomes == {"ok", "fail", "throw"}

(* a response other than success consumes one of the injected faults *)
FaultOk(out) == out = "ok" \/ faults < MaxFaults
FaultsAfter(out) == IF out = "ok" THEN faults ELSE faults + 1

OptInt(opt) == IF opt = <<>> THEN NewId ELSE opt[1]

(* PUT /pages/{id}/ answered with success: id -1 creates a page *)
ServerPutId(id) == IF id = NewId THEN nextId ELSE id
ServerPut(md, content) ==
    Put(remote, ServerPutId(md.id),
        [subject |-> md.subject, parent_id |-> OptInt(md.parent_id),
         content |-> Trim(content), open_yn |-> md.open_yn,
         book_id |-> IF md.id \in DOMAIN remote THEN remote[md.id].book_id
                     ELSE OptInt(md.book_id)])

(* GET /books/{id}/ answered with success: the pages of that book *)
ServerBook(bookId) == Restrict(remote, {i \in DOMAIN remote : remote[i].book_id = bookId})

RECURSIVE SortedSeq(_)
SortedSeq(S) ==
    IF S = {} THEN <<>>
    ELSE LET m == CHOOSE x \in S : \A y \in S : x <= y
         IN <<m>> \o SortedSeq(S \ {m})

(* GET /books/{id}/ : the page tree of the response, by parent_id *)
RootPages(resp) == SortedSeq({i \in DOMAIN resp : resp[i].parent_id \notin DOMAIN resp})
ChildPages(resp, i) == SortedSeq({j \in DOMAIN resp : resp[j].parent_id = i})

WorkItems(ids, folderPath) == [k \in 1..Len(ids) |-> [page |-> ids[k], dir |-> folderPath]]

----------------------------------------------------------------------------
(* Sync operations.  A slot holds one run of a menu or ribbon callback.     *)

Slots == {"op1", "op2"}

NoMd == PageMetadata(0, <<>>, <<>>, <<>>, <<>>, Undefined)

IdleOp == [kind |-> "idle", pc |-> "idle", folder |-> Root, todo |-> {}, cur |-> Root,
           changedCount |-> 0, hasError |-> FALSE, md |-> NoMd, content |-> "",
           imgs |-> 0, imgsLeft |-> 0, page_id |-> 0, resp |-> <<>>, stack |-> <<>>,
           kids |-> {}, pulled |-> FALSE]

Free(o) == ops[o].pc \in {"idle", "done"}

Call(kind, doc, id, subject, out, ret) ==
    [call |-> kind, doc |-> doc, id |-> id, subject |-> subject, res |-> out, ret |-> ret]

(* fetchWithAuth, part_003:13-33: without a token it throws before the     *)
(* request is made; otherwise the request goes out and is answered with out *)
TokenMissingIgnored == FALSE
TokenMissing == ~apiToken
fetchWithAuth(call, out) ==
    IF TokenMissing
    THEN /\ out = "throw"
         /\ UNCHANGED <<log, faults>>
    ELSE /\ FaultOk(out)
         /\ faults' = FaultsAfter(out)
         /\ log' = Append(log, call)

MsgPushed == "page pushed"
MsgNothingChanged == "nothing changed"
MsgNoMetadata == "no book metadata"
MsgPullFailed == "pull failed"
MsgPulled == "book pulled"

(* the per-file dirty rule of syncToServer, part_004:257-263 *)
needsSync(md, mtime, path) ==
    \/ md.last_synced = <<>>
    \/ mtime - md.last_synced[1] > SyncEpsilonMs
    \/ sanitizeFileName(md.subject) # sanitizeFileName(extractTitleFromFilePath(path))

(* the file list of syncToServer, part_004:229 *)
PushFileList(folder) == FilesOfFolder(folder)

(* "위키독스 보내기" clicked on a folder holding a metadata.md *)
BeginPush(o, folder) ==
    /\ Free(o)
    /\ folder \in folders
    /\ Append(folder, MetadataName) \in FilePaths
    /\ isSyncProcess' = TRUE
    /\ ops' = [ops EXCEPT ![o] = [IdleOp EXCEPT !.kind = "push", !.pc = "loop",
                                   !.folder = folder, !.todo = PushFileList(folder)]]
    /\ UNCHANGED <<apiToken, renameVars, userActs, files, folders, remote, nextId, now, layout_ready, handlers, log,
                   notices, written, clobbered, faults>>

(* for (const file of files): the sentinel is skipped, any other file is read *)
PushSkipsFile(f) == FileName(f) = MetadataName

(* part_004:233-293: every step of the loop body is awaited, so the loop    *)
(* takes its next file only when the body has ended for the previous one     *)
LoopBodyNotAwaited(op) == op.pc \in {"loop", "upload1", "upload2", "update1", "update2"}
LoopBodyEnded(op) == op.pc = "loop"

PushPick(o) ==
    /\ ops[o].kind = "push" /\ LoopBodyEnded(ops[o]) /\ ops[o].todo # {}
    /\ \E f \in ops[o].todo :
         ops' = [ops EXCEPT ![o].todo = @ \ {f},
                            ![o].cur = f,
                            ![o].pc = IF PushSkipsFile(f) THEN "loop" ELSE "read"]
    /\ UNCHANGED <<apiToken, renameVars, userActs, files, folders, remote, nextId, now, isSyncProcess, layout_ready,
                   handlers, log, notices, written, clobbered, faults>>

(* catch (error) { hasError = true } : on to the next file *)
PushCatchEndsLoop(op) == [op EXCEPT !.hasError = TRUE, !.pc = "loop", !.todo = {}]
PushCatch(op) == [op EXCEPT !.hasError = TRUE, !.pc = "loop"]

(* after the uploads of a phase: the update call that follows it *)
NextAfterUploads(pc) == IF pc = "upload1" THEN "update1" ELSE "update2"

(* part_004:273: images are uploaded first only for a document with an id *)
UploadFirstNever(md) == FALSE
UploadFirst(md) == md.id # NewId

(* after vault.read: decode, decide, and go to the first transport call *)
PushEval(o) ==
    /\ ops[o].kind = "push" /\ ops[o].pc = "read"
    /\ LET f == ops[o].cur IN
       IF f \notin FilePaths \/ ~CanExtractMetadata(files[f])
       THEN ops' = [ops EXCEPT ![o] = PushCatch(@)]
       ELSE LET md0 == extractMetadataFromFrontMatter(files[f])
                md == [md0 EXCEPT !.parent_id = OrMinusOne(@)]
                body == removeFrontMatter(files[f])
                n == extractEmbeddedImages(body)
            IN IF ~needsSync(md, files[f].mtime, f)
               THEN ops' = [ops EXCEPT ![o].pc = "loop"]
               ELSE ops' = [ops EXCEPT ![o].changedCount = @ + 1,
                                       ![o].md = md,
                                       ![o].content = body,
                                       ![o].imgs = n,
                                       ![o].imgsLeft = n,
                                       ![o].pc = IF UploadFirst(md) THEN
                                                    (IF n = 0 THEN "update1" ELSE "upload1")
                                                 ELSE "update1"]
    /\ UNCHANGED <<apiToken, renameVars, userActs, files, folders, remote, nextId, now, isSyncProcess, layout_ready,
                   handlers, log, notices, written, clobbered, faults>>

(* the page id an image upload of this phase is tagged with *)
UploadPageId(op) == IF op.pc = "upload1" THEN op.md.id ELSE op.page_id

(* part_003:78-85: the upload throws when fetch throws or response.ok is false *)
UploadThrowsOnlyOnException(out) == out = "throw"
UploadThrows(out) == out # "ok"

(* uploadImagesForPage: one POST /images/upload/ per image, throws unless ok *)
PushUpload(o, out) ==
    /\ ops[o].kind = "push" /\ ops[o].pc \in {"upload1", "upload2"}
    /\ ops[o].imgsLeft > 0
    /\ fetchWithAuth(Call("IMG", ops[o].cur, UploadPageId(ops[o]), <<>>, out, 0), out)
    /\ ops' = IF UploadThrows(out) THEN [ops EXCEPT ![o] = PushCatch(@)]
              ELSE [ops EXCEPT ![o].imgsLeft = @ - 1,
                               ![o].pc = IF ops[o].imgsLeft = 1
                                         THEN NextAfterUploads(ops[o].pc) ELSE @]
    /\ UNCHANGED <<apiToken, renameVars, userActs, files, folders, remote, nextId, now, isSyncProcess, layout_ready,
                   handlers, notices, written, clobbered>>

(* updatePageOnServer's result: data.id if response.ok, else -1 *)
UpdateResult(out, id) == IF out = "ok" THEN ServerPutId(id) ELSE NewId

(* part_004:278 *)
SubjectToSend(op) == extractTitleFromFilePath(op.cur)

(* part_004:279-287: what follows the first update call that returned ret *)
AfterFirstUpdate(op, ret) ==
    IF op.md.id = NewId
    THEN [op EXCEPT !.page_id = ret, !.md.id = ret, !.imgsLeft = op.imgs,
                    !.pc = IF op.imgs = 0 THEN "update2" ELSE "upload2"]
    ELSE [op EXCEPT !.page_id = ret, !.pc = "loop"]

PushUpdate(o, out) ==
    /\ ops[o].kind = "push" /\ ops[o].pc \in {"update1", "update2"}
    /\ LET op == [ops[o] EXCEPT !.md.subject = IF ops[o].pc = "update1"
                                                THEN SubjectToSend(ops[o]) ELSE @]
           ret == UpdateResult(out, op.md.id)
       IN /\ fetchWithAuth(Call("PUT", op.cur, op.md.id, op.md.subject, out, ret), out)
          /\ remote' = IF out = "ok" THEN ServerPut(op.md, op.content) ELSE remote
          /\ nextId' = IF out = "ok" /\ op.md.id = NewId THEN nextId + 1 ELSE nextId
          /\ IF out = "throw"
             THEN /\ ops' = [ops EXCEPT ![o] = PushCatch(op)]
                  /\ UNCHANGED notices
             ELSE IF op.pc = "update1" /\ op.md.id = NewId
             THEN /\ ops' = [ops EXCEPT ![o] = AfterFirstUpdate(op, ret)]
                  /\ UNCHANGED notices
             ELSE /\ ops' = [ops EXCEPT ![o] = [op EXCEPT !.page_id = ret, !.pc = "loop"]]
                  /\ notices' = Append(notices, MsgPushed)
    /\ UNCHANGED <<apiToken, renameVars, userActs, files, folders, now, isSyncProcess, layout_ready, handlers,
                   written, clobbered>>

(* part_004:295: the trailing pull runs *)
PullAfterPush(op) == ~op.hasError /\ op.changedCount > 0

(* after the loop: the trailing pull, or the notice and the end of the callback *)
PushFinish(o) ==
    /\ ops[o].kind = "push" /\ ops[o].pc = "loop" /\ ops[o].todo = {}
    /\ IF PullAfterPush(ops[o])
       THEN /\ ops' = [ops EXCEPT ![o].pc = "pull", ![o].pulled = TRUE]
            /\ UNCHANGED <<notices, isSyncProcess>>
       ELSE /\ ops' = [ops EXCEPT ![o].pc = "done"]
            /\ notices' = Append(notices, MsgNothingChanged)
            /\ isSyncProcess' = FALSE
    /\ UNCHANGED <<apiToken, renameVars, userActs, files, folders, remote, nextId, now, layout_ready, handlers, log,
                   written, clobbered, faults>>

----------------------------------------------------------------------------
(* The vault's "create" event, part_004:119-153 *)

(* the two gates and the type test, evaluated when the event is delivered *)
CreateGateIgnoresLayout == ~isSyncProcess
CreateGateOpen == layout_ready /\ ~isSyncProcess
HandlersAfterCreate(p) ==
    IF CreateGateOpen /\ HasMdExtension(p)
    THEN handlers \cup {[file |-> p, pc |-> "read"]}
    ELSE handlers

(* part_004:115-117: the workspace reports that its layout is ready *)
LayoutReady ==
    /\ ~layout_ready
    /\ layout_ready' = TRUE
    /\ UNCHANGED <<apiToken, renameVars, userActs, files, folders, remote, nextId, now,
                   isSyncProcess, ops, handlers, log, notices, written, clobbered, faults>>

----------------------------------------------------------------------------
(* Pull: syncFromServer, part_004:196-225 *)

PullPhase(o) == ops[o].kind \in {"pull", "push"}

(* the callback that awaited the sync returns: isSyncProcess = false *)
EndOp(op) == [op EXCEPT !.pc = "done"]

(* is_need_sync of part_004:80 (lib/md.ts isNeedSync); Threw: it rejects *)
NeedSyncFiles(folder) == {f \in FilesOfFolder(folder) : FileName(f) # MetadataName}
isNeedSyncThrows(folder) == \E f \in NeedSyncFiles(folder) : ~CanExtractMetadata(files[f])
isNeedSync(folder) ==
    \E f \in NeedSyncFiles(folder) :
        needsSync(extractMetadataFromFrontMatter(files[f]), files[f].mtime, f)

(* "위키독스 내려받기" clicked; confirmed is the answer to the warning dialog *)
BeginPull(o, folder, confirmed) ==
    /\ Free(o)
    /\ folder \in folders
    /\ Append(folder, MetadataName) \in FilePaths
    /\ ~isNeedSyncThrows(folder)
    /\ isNeedSync(folder) => confirmed
    /\ ~isNeedSync(folder) => ~confirmed
    /\ isSyncProcess' = TRUE
    /\ ops' = [ops EXCEPT ![o] = [IdleOp EXCEPT !.kind = "pull", !.pc = "pull",
                                   !.folder = folder]]
    /\ UNCHANGED <<apiToken, renameVars, userActs, files, folders, remote, nextId, now, layout_ready, handlers, log,
                   notices, written, clobbered, faults>>

(* part_004:208: bookResponse.ok *)
ResponseOkOrStatusIgnored(out) == out # "throw"
ResponseOk(out) == out = "ok"

(* part_004:200-211: resolve the book id, then GET /books/{id}/ *)
PullFetch(o, out) ==
    /\ PullPhase(o) /\ ops[o].pc = "pull"
    /\ LET bookId == getBookIdFromMetadata(ops[o].folder) IN
       IF bookId = <<>>
       THEN /\ out = "ok"
            /\ notices' = Append(notices, MsgNoMetadata)
            /\ ops' = [ops EXCEPT ![o] = EndOp(@)]
            /\ isSyncProcess' = FALSE
            /\ UNCHANGED <<log, faults>>
       ELSE /\ fetchWithAuth(Call("GET", ops[o].folder, bookId[1], <<>>, out, 0), out)
            /\ IF ResponseOk(out)
               THEN /\ ops' = [ops EXCEPT ![o].resp = ServerBook(bookId[1]), ![o].pc = "purge",
                                          ![o].kids = Children(ops[o].folder)]
                    /\ UNCHANGED <<notices, isSyncProcess>>
               ELSE /\ notices' = Append(notices, MsgPullFailed)
                    /\ ops' = [ops EXCEPT ![o] = EndOp(@)]
                    /\ isSyncProcess' = FALSE
    /\ UNCHANGED <<apiToken, renameVars, userActs, files, folders, remote, nextId, now, layout_ready, handlers,
                   written, clobbered>>

(* deleteFolderContents keeps a child: the metadata.md file *)
PurgeKeeps(k) == k \in FilePaths /\ FileName(k) = MetadataName

(* deleteFolderContents, lib/utils.ts:71-81: one child per step *)
PullPurge(o) ==
    /\ PullPhase(o) /\ ops[o].pc = "purge"
    /\ IF ops[o].kids = {}
       THEN /\ ops' = [ops EXCEPT ![o].pc = "json"]
            /\ UNCHANGED <<files, folders, written>>
       ELSE LET k == CHOOSE x \in ops[o].kids : TRUE IN
            /\ ops' = [ops EXCEPT ![o].kids = @ \ {k}]
            /\ IF PurgeKeeps(k) \/ ~Exists(k)
               THEN UNCHANGED <<files, folders, written>>
               ELSE /\ files' = TrashFiles(k)
                    /\ folders' = TrashFolders(k)
                    /\ written' = {p \in written : p # k /\ ~IsUnder(p, k)}
    /\ UNCHANGED <<apiToken, renameVars, userActs, remote, nextId, now, isSyncProcess, layout_ready, handlers, log,
                   notices, clobbered, faults>>

(* part_004:217: bookResponse.json(); a body that is not JSON throws *)
PullJson(o, out) ==
    /\ PullPhase(o) /\ ops[o].pc = "json"
    /\ out \in {"ok", "throw"}
    /\ FaultOk(out)
    /\ faults' = FaultsAfter(out)
    /\ IF out = "ok"
       THEN /\ ops' = [ops EXCEPT ![o].pc = "save",
                                  ![o].stack = WorkItems(RootPages(ops[o].resp), ops[o].folder)]
            /\ UNCHANGED <<notices, isSyncProcess>>
       ELSE /\ notices' = Append(notices, MsgPullFailed)
            /\ ops' = [ops EXCEPT ![o] = EndOp(@)]
            /\ isSyncProcess' = FALSE
    /\ UNCHANGED <<apiToken, renameVars, userActs, files, folders, remote, nextId, now, layout_ready, handlers, log,
                   written, clobbered>>

(* the file savePagesToMarkdown writes for a page, lib/md.ts:217-229 *)
PagePath(page, dir) == Append(dir, sanitizeFileName(page.subject) \o MD)
PageFolder(page, dir) == Append(dir, sanitizeFileName(page.subject))
PageFile(id, page, t) ==
    [hasFM |-> TRUE,
     fm |-> getFrontMatter(PageMetadata(id, page.subject, <<t>>, <<>>,
                                        <<page.parent_id>>, page.open_yn)),
     body |-> IF page.content = NullContent THEN NoContentText ELSE page.content,
     mtime |-> t]

(* ensureFolderExists, lib/utils.ts:84-89 *)
FoldersAfterEnsure(fs, p) ==
    IF p \in fs \/ p \in FilePaths \/ ParentPath(p) \notin fs THEN fs ELSE fs \cup {p}

(* savePagesToMarkdown, lib/md.ts:215-249: one page per step, depth first;  *)
(* a page whose file cannot be created is logged and its children skipped   *)
SaveStep(o) ==
    LET item == Head(ops[o].stack)
        page == ops[o].resp[item.page]
        path == PagePath(page, item.dir)
        kidsOf == ChildPages(ops[o].resp, item.page)
        sub == PageFolder(page, item.dir)
    IN IF CanCreate(path)
       THEN /\ files' = Put(files, path, PageFile(item.page, page, now))
            /\ written' = written \cup {path}
            /\ handlers' = HandlersAfterCreate(path)
            /\ folders' = IF Len(kidsOf) > 0 THEN FoldersAfterEnsure(folders, sub)
                          ELSE folders
            /\ ops' = [ops EXCEPT ![o].stack = WorkItems(kidsOf, sub) \o Tail(@)]
       ELSE /\ ops' = [ops EXCEPT ![o].stack = Tail(@)]
            /\ UNCHANGED <<files, folders, written, handlers>>

PullSave(o) ==
    /\ PullPhase(o) /\ ops[o].pc = "save"
    /\ IF ops[o].stack = <<>>
       THEN /\ notices' = Append(notices, MsgPulled)
            /\ ops' = [ops EXCEPT ![o] = EndOp(@)]
            /\ isSyncProcess' = FALSE
            /\ UNCHANGED <<files, folders, written, handlers>>
       ELSE /\ SaveStep(o)
            /\ UNCHANGED <<notices, isSyncProcess>>
    /\ UNCHANGED <<apiToken, renameVars, userActs, remote, nextId, now, layout_ready, log, clobbered, faults>>

----------------------------------------------------------------------------
(* Header stamping: addFrontMatterToFile, lib/md.ts:156-182 *)

(* readTopLevelMetadata, lib/utils.ts:33-69: <<>> for null, else <<id>>     *)
(* where id is <<>> when the nearest sentinel header has no id line.        *)
readNearestSentinelOnly(dir) ==
    IF Len(dir) = 0 \/ Append(dir, MetadataName) \notin FilePaths THEN <<>>
    ELSE IF files[Append(dir, MetadataName)].hasFM
         THEN <<files[Append(dir, MetadataName)].fm.id>> ELSE <<>>
RECURSIVE readTopLevelMetadata(_)
readTopLevelMetadata(dir) ==
    IF Len(dir) = 0 THEN <<>>
    ELSE LET m == Append(dir, MetadataName)
         IN IF m \in FilePaths /\ files[m].hasFM THEN <<files[m].fm.id>>
            ELSE readTopLevelMetadata(ParentPath(dir))

StampBookIdNone(p) == NewId
StampBookId(p) ==
    LET metadata == readTopLevelMetadata(ParentPath(p))
    IN IF metadata # <<>> /\ Truthy(metadata[1]) THEN metadata[1][1] ELSE NewId

(* getParentId, lib/md.ts:101-139 *)
getParentId(p) ==
    LET parentFolder == ParentPath(p)
    IN IF Len(parentFolder) = 0 THEN NewId
       ELSE LET grandParentFolder == ParentPath(parentFolder)
                potentialFilePath == Append(grandParentFolder, FileName(parentFolder) \o MD)
            IN IF Len(grandParentFolder) = 0 THEN NewId
               ELSE IF potentialFilePath \notin FilePaths THEN NewId
               ELSE IF ~HasFrontMatterCache(files[potentialFilePath]) THEN NewId
               ELSE IF ~Truthy(files[potentialFilePath].fm.id) THEN NewId
               ELSE files[potentialFilePath].fm.id[1]

(* the text the property writer emits for a string: quoted where a plain    *)
(* scalar would not read back as the same string                            *)
YamlWrite(s) ==
    IF YamlSubject(s) = [kind |-> "str", val |-> s] THEN s ELSE Quote(s)

(* the callback of processFrontMatter, lib/md.ts:169-181 *)
StampedFile(p, f, t) ==
    LET had == f.hasFM /\ HasFrontMatterCache(f)
        oldSubject == IF had THEN YamlSubject(f.fm.subject) ELSE [kind |-> "null", val |-> <<>>]
    IN [hasFM |-> TRUE,
        fm |-> [id |-> IF had /\ Truthy(f.fm.id) THEN f.fm.id ELSE <<NewId>>,
                subject |-> IF oldSubject.kind \in {"str", "num"} /\ oldSubject.val # <<>>
                            THEN f.fm.subject
                            ELSE YamlWrite(sanitizeFileName(BaseName(p))),
                book_id |-> <<StampBookId(p)>>,
                parent_id |-> <<getParentId(p)>>,
                open_yn |-> IF had THEN f.fm.open_yn ELSE Undefined,
                last_synced |-> <<>>],
        body |-> f.body,
        mtime |-> t]

----------------------------------------------------------------------------
(* The "create" handler after its gate, part_004:129-151 *)

(* part_004:141-142 *)
IsDuplicate(last_synced, t) == (t - last_synced) \div MsPerSec > DupThresholdSec

(* part_004:143-147 *)
ReclassifiedFile(f, t) ==
    LET md == [extractMetadataFromFrontMatter(f) EXCEPT !.id = NewId, !.last_synced = <<>>]
    IN [hasFM |-> TRUE, fm |-> getFrontMatter(md), body |-> getPureContent(f), mtime |-> t]

HandlerRead(h) ==
    /\ h \in handlers /\ h.pc = "read"
    /\ LET p == h.file IN
       IF p \notin FilePaths
       THEN /\ handlers' = handlers \ {h}
            /\ UNCHANGED <<files, clobbered, written>>
       ELSE IF ContentIsBlank(files[p])
       THEN /\ handlers' = (handlers \ {h}) \cup {[file |-> p, pc |-> "stamp"]}
            /\ UNCHANGED <<files, clobbered, written>>
       ELSE IF FileName(p) = MetadataName \/ ~CanExtractMetadata(files[p])
       THEN /\ handlers' = handlers \ {h}
            /\ UNCHANGED <<files, clobbered, written>>
       ELSE LET md == extractMetadataFromFrontMatter(files[p]) IN
            /\ handlers' = handlers \ {h}
            /\ IF md.last_synced # <<>> /\ IsDuplicate(md.last_synced[1], now)
               THEN /\ files' = [files EXCEPT ![p] = ReclassifiedFile(@, now)]
                    /\ clobbered' = IF p \in written THEN clobbered \cup {p} ELSE clobbered
                    /\ written' = written
               ELSE UNCHANGED <<files, clobbered, written>>
    /\ UNCHANGED <<apiToken, renameVars, userActs, folders, remote, nextId, now, isSyncProcess, layout_ready, ops, log,
                   notices, faults>>

(* addFrontMatterToFile resumes after its reads and rewrites the header *)
HandlerStamp(h) ==
    /\ h \in handlers /\ h.pc = "stamp"
    /\ handlers' = handlers \ {h}
    /\ LET p == h.file IN
       IF p \notin FilePaths
       THEN UNCHANGED <<files, clobbered>>
       ELSE /\ files' = [files EXCEPT ![p] = StampedFile(p, @, now)]
            /\ clobbered' = IF p \in written THEN clobbered \cup {p} ELSE clobbered
    /\ UNCHANGED <<apiToken, renameVars, userActs, folders, remote, nextId, now, isSyncProcess, layout_ready, ops, log,
                   notices, written, faults>>

----------------------------------------------------------------------------
(* The user and the clock *)

EmptyFile(t) == [hasFM |-> FALSE, fm |-> NoFM, body |-> "", mtime |-> t]

(* a new empty note is created at p *)
UserCreate(p) ==
    /\ HasMdExtension(p)
    /\ userActs > 0
    /\ userActs' = userActs - 1
    /\ CanCreate(p)
    /\ files' = Put(files, p, EmptyFile(now))
    /\ handlers' = HandlersAfterCreate(p)
    /\ UNCHANGED <<apiToken, renameVars, folders, remote, nextId, now, isSyncProcess,
                   layout_ready, ops, log, notices, written, clobbered, faults>>

(* an existing note is copied to p *)
UserDuplicate(src, p) ==
    /\ src \in FilePaths
    /\ HasMdExtension(p)
    /\ userActs > 0
    /\ userActs' = userActs - 1
    /\ CanCreate(p)
    /\ files' = Put(files, p, [files[src] EXCEPT !.mtime = now])
    /\ handlers' = HandlersAfterCreate(p)
    /\ UNCHANGED <<apiToken, renameVars, folders, remote, nextId, now, isSyncProcess,
                   layout_ready, ops, log, notices, written, clobbered, faults>>

Tick(ms) ==
    /\ now + ms <= StartTime + MaxTicks * TickMs
    /\ \A t \in timers : now < t.due
    /\ now' = now + ms
    /\ UNCHANGED <<apiToken, renameVars, userActs, files, folders, remote, nextId, isSyncProcess, layout_ready, ops,
                   handlers, log, notices, written, clobbered, faults>>

----------------------------------------------------------------------------
(* The vault's "rename" event, part_004:155-179.  A rename of a folder      *)
(* raises one event for the folder and one for each file and folder below   *)
(* it; the event of a folder is delivered before those of its content.      *)

MsgFolderRename == "folder rename is not sent"

(* the path of p after old was renamed to new *)
MovedPath(p, old, new) ==
    IF p = old \/ IsUnder(p, old) THEN new \o SubSeq(p, Len(old) + 1, Len(p)) ELSE p

MovedSet(S, old, new) == {MovedPath(p, old, new) : p \in S}

MovedFiles(old, new) ==
    [q \in MovedSet(FilePaths, old, new) |->
        files[CHOOSE p \in FilePaths : MovedPath(p, old, new) = q]]

(* TFile objects follow the rename: suspended handlers see the new path *)
MovedHandlers(old, new) == {[h EXCEPT !.file = MovedPath(@, old, new)] : h \in handlers}

(* cause: what the user did, "move" of one note or "folder" rename; the     *)
(* handler does not see it                                                   *)
RenameEvent(p, isFolder, cause) == [file |-> p, isFolder |-> isFolder, cause |-> cause]

(* the user renames a note or drags it to another folder; the events of an *)
(* earlier rename have been delivered by then                                *)
UserMoveFile(src, dst) ==
    /\ userActs > 0
    /\ events = {}
    /\ userActs' = userActs - 1
    /\ src \in FilePaths /\ src # dst
    /\ CanCreate(dst)
    /\ files' = MovedFiles(src, dst)
    /\ handlers' = MovedHandlers(src, dst)
    /\ written' = written \ {src}
    /\ events' = {RenameEvent(dst, FALSE, "move")}
    /\ UNCHANGED <<apiToken, recentRenamedFolderPaths, timers, folders, remote, nextId, now,
                   isSyncProcess, layout_ready, ops, log, notices, clobbered, faults>>

(* the user renames a folder *)
UserRenameFolder(src, dst) ==
    /\ userActs > 0
    /\ events = {}
    /\ userActs' = userActs - 1
    /\ src \in folders /\ src # Root /\ src # dst
    /\ ~Exists(dst) /\ ParentPath(dst) \in folders /\ ~IsUnder(dst, src)
    /\ files' = MovedFiles(src, dst)
    /\ folders' = MovedSet(folders, src, dst)
    /\ handlers' = MovedHandlers(src, dst)
    /\ written' = MovedSet(written, src, dst)
    /\ events' = {RenameEvent(MovedPath(p, src, dst), TRUE, "folder") :
                            p \in {f \in folders : f = src \/ IsUnder(f, src)}}
                    \cup {RenameEvent(MovedPath(p, src, dst), FALSE, "folder") :
                            p \in {f \in FilePaths : IsUnder(f, src)}}
    /\ UNCHANGED <<apiToken, recentRenamedFolderPaths, timers, remote, nextId, now,
                   isSyncProcess, layout_ready, ops, log, notices, clobbered, faults>>

(* the event of a folder comes before the events of what it holds *)
RenameReady(e) == ~\E e2 \in events : IsUnder(e.file, e2.file)

(* part_004:166: the file's folder was renamed a moment ago *)
AfterRenamedFolder(p) == ParentPath(p) \in recentRenamedFolderPaths

(* part_004:172: the moved file is a note and not the sentinel *)
RenameStamps(p) == p \in FilePaths /\ HasMdExtension(p) /\ FileName(p) # MetadataName

(* the rename handler runs for one event, part_004:157-178 *)
RenameDeliver(e) ==
    /\ e \in events /\ RenameReady(e)
    /\ events' = events \ {e}
    /\ IF e.isFolder
       THEN /\ notices' = Append(notices, MsgFolderRename)
            /\ recentRenamedFolderPaths' = recentRenamedFolderPaths \cup {e.file}
            /\ timers' = timers \cup {[path |-> e.file, due |-> now + RenameWindowMs]}
            /\ UNCHANGED handlers
       ELSE /\ handlers' = IF ~AfterRenamedFolder(e.file) /\ RenameStamps(e.file)
                           THEN handlers \cup {[file |-> e.file, pc |-> "stamp"]}
                           ELSE handlers
            /\ UNCHANGED <<notices, recentRenamedFolderPaths, timers>>
    /\ UNCHANGED <<apiToken, userActs, files, folders, remote, nextId, now, isSyncProcess,
                   layout_ready, ops, log, written, clobbered, faults>>

(* part_004:161-163: the timeout of a folder rename expires *)
TimerFire(t) ==
    /\ t \in timers /\ now >= t.due
    /\ timers' = timers \ {t}
    /\ recentRenamedFolderPaths' = recentRenamedFolderPaths \ {t.path}
    /\ UNCHANGED <<apiToken, events, userActs, files, folders, remote, nextId, now,
                   isSyncProcess, layout_ready, ops, handlers, log, notices, written,
                   clobbered, faults>>

----------------------------------------------------------------------------
(* Scenarios: the vaults and books the specifications start from *)

G == <<(<<"G">>)>>
G2 == <<(<<"G", "2">>)>>
TitleA == <<"A">>
TitleB == <<"B">>
TitleOld == <<"O">>
BookG == 7
BookG2 == 8
IdA == 5
IdB == 6
IdC == 9

DocPath(dir, title) == Append(dir, title \o MD)

Sentinel(id, t) ==
    [hasFM |-> TRUE,
     fm |-> [NoFM EXCEPT !.id = id, !.subject = <<"T">>],
     body |-> "", mtime |-> t]

Doc(id, subject, book, last_synced, body, mtime) ==
    [hasFM |-> TRUE,
     fm |-> [id |-> <<id>>, subject |-> subject, book_id |-> <<book>>,
             parent_id |-> <<NewId>>, open_yn |-> "Y", last_synced |-> last_synced],
     body |-> body, mtime |-> mtime]

PlainFile(body, t) == [hasFM |-> FALSE, fm |-> NoFM, body |-> body, mtime |-> t]

(* the states a local document can be in when a push starts *)
DocKinds == {"new", "newimg", "clean", "edge", "late", "lateimg", "drift", "nofm"}
DocOfKind(kind, id, title, book) ==
    CASE kind = "new"     -> Doc(NewId, title, book, <<>>, "Hello", SyncedAt)
      [] kind = "newimg"  -> Doc(NewId, title, book, <<>>, "![](p.png)", SyncedAt)
      [] kind = "clean"   -> Doc(id, title, book, <<SyncedAt>>, "Hello", SyncedAt - TickMs)
      [] kind = "edge"    -> Doc(id, title, book, <<SyncedAt>>, "Hello", SyncedAt + SyncEpsilonMs)
      [] kind = "late"    -> Doc(id, title, book, <<SyncedAt>>, "Hello\n", SyncedAt + SyncEpsilonMs + TickMs)
      [] kind = "lateimg" -> Doc(id, title, book, <<SyncedAt>>, "![](p.png)", SyncedAt + SyncEpsilonMs + TickMs)
      [] kind = "drift"   -> Doc(id, TitleOld, book, <<SyncedAt>>, "Hello", SyncedAt - TickMs)
      [] kind = "nofm"    -> PlainFile("Hello", SyncedAt)

HasRemotePage(kind) == kind \in {"clean", "edge", "late", "lateimg", "drift"}

RemotePage(subject, book) ==
    [subject |-> subject, parent_id |-> NewId, content |-> "Hello", open_yn |-> "Y",
     book_id |-> book]

Merge(f, g) == [x \in (DOMAIN f) \cup (DOMAIN g) |-> IF x \in DOMAIN g THEN g[x] ELSE f[x]]
One(k, v) == [x \in {k} |-> v]
Empty == <<>>

PushVault(ka, kb, kc) ==
    Merge(Merge(Merge(One(Append(G, MetadataName), Sentinel(<<BookG>>, SyncedAt)),
                      One(Append(G2, MetadataName), Sentinel(<<BookG2>>, SyncedAt))),
                Merge(One(DocPath(G, TitleA), DocOfKind(ka, IdA, TitleA, BookG)),
                      IF kb = "none" THEN Empty
                      ELSE One(DocPath(G, TitleB), DocOfKind(kb, IdB, TitleB, BookG)))),
          IF kc = "none" THEN Empty
          ELSE One(DocPath(G2, TitleA), DocOfKind(kc, IdC, TitleA, BookG2)))

PushRemote(ka, kb, kc) ==
    Merge(Merge(IF HasRemotePage(ka) THEN One(IdA, RemotePage(TitleA, BookG)) ELSE Empty,
                IF HasRemotePage(kb) THEN One(IdB, RemotePage(TitleB, BookG)) ELSE Empty),
          IF HasRemotePage(kc) THEN One(IdC, RemotePage(TitleA, BookG2)) ELSE Empty)

InitCommon ==
    /\ nextId = FirstServerId
    /\ isSyncProcess = FALSE
    /\ ops = [o \in Slots |-> IdleOp]
    /\ handlers = {}
    /\ log = <<>>
    /\ notices = <<>>
    /\ written = {}
    /\ clobbered = {}
    /\ faults = 0
    /\ recentRenamedFolderPaths = {}
    /\ timers = {}
    /\ events = {}

InitPush ==
    /\ InitCommon
    /\ layout_ready = TRUE
    /\ userActs = 0
    /\ apiToken = TRUE
    /\ now = StartTime
    /\ folders = {Root, G, G2}
    /\ \E ka \in DocKinds, kb \in DocKinds \cup {"none"}, kc \in {"none", "clean", "late"} :
         /\ files = PushVault(ka, kb, kc)
         /\ remote = PushRemote(ka, kb, kc)

NextPush ==
    \/ (ops["op1"].pc = "idle" /\ BeginPush("op1", G))
    \/ PushPick("op1")
    \/ PushEval("op1")
    \/ \E out \in Outcomes : PushUpload("op1", out)
    \/ \E out \in Outcomes : PushUpdate("op1", out)
    \/ PushFinish("op1")
    \/ \E out \in Outcomes : PullFetch("op1", out)
    \/ PullPurge("op1")
    \/ \E out \in Outcomes : PullJson("op1", out)
    \/ PullSave("op1")

SpecPush == InitPush /\ [][NextPush]_vars

----------------------------------------------------------------------------
(* Vocabulary of the push claims.  While the loop of syncToServer runs, and *)
(* until its trailing pull purges, the vault is the one the push started on. *)

ThePush == ops["op1"]
LogOf(d) == SelectSeq(log, LAMBDA e : e.doc = d)
Puts(L) == SelectSeq(L, LAMBDA e : e.call = "PUT")
Uploads(L) == SelectSeq(L, LAMBDA e : e.call = "IMG")

InPushLoop == ThePush.kind = "push"
              /\ ThePush.pc \in {"loop", "read", "upload1", "upload2", "update1", "update2"}
PushLoopOver == ThePush.kind = "push"
                /\ (ThePush.pc = "pull" \/ (ThePush.pc = "done" /\ ~ThePush.pulled))
VaultAsPushed == InPushLoop \/ PushLoopOver

(* the push is done with file d *)
Processed(d) == /\ d \notin ThePush.todo
                /\ ~(ThePush.cur = d /\ ThePush.pc \in {"read", "upload1", "upload2",
                                                        "update1", "update2"})

(* a call after which the source throws out of the file's push steps *)
Aborting(e) == (e.call = "PUT" /\ e.res = "throw") \/ (e.call = "IMG" /\ e.res # "ok")

IsNewDoc(d) == CanExtractMetadata(files[d]) /\ files[d].fm.id = <<NewId>>
IsDirtyDoc(d) == /\ CanExtractMetadata(files[d])
                 /\ needsSync(extractMetadataFromFrontMatter(files[d]), files[d].mtime, d)

(* the documents of the target folder: the files below it, sentinel excluded *)
DocsUnder(folder) == {d \in FilePaths : IsUnder(d, folder) /\ FileName(d) # MetadataName}

(* C1: for every dirty document with header id -1 the calls are: update with *)
(* id -1, then the uploads tagged with the id that update returned, then one *)
(* update with that id; two updates in all when the steps were not aborted,  *)
(* and never an upload tagged -1.                                            *)
C1_NewDocTwoPhase ==
    VaultAsPushed =>
      \A d \in FilePaths :
        (FileName(d) # MetadataName /\ IsNewDoc(d) /\ IsDirtyDoc(d)) =>
          LET L == LogOf(d) IN
          /\ \A i \in 1..Len(L) : L[i].call = "IMG" => L[i].id # NewId
          /\ Len(L) >= 1 => (L[1].call = "PUT" /\ L[1].id = NewId)
          /\ \A i \in 2..Len(L) :
               /\ L[i].id = L[1].ret
               /\ L[i].call = "PUT" => i = Len(L)
          /\ Len(Puts(L)) <= 2
          /\ (Processed(d) /\ Len(L) >= 1 /\ \A i \in 1..Len(L) : ~Aborting(L[i]))
               => Len(Puts(L)) = 2

(* a new document with an image got its three calls, all answered with success *)
C1_Witness ==
    /\ VaultAsPushed
    /\ \E d \in FilePaths :
         /\ IsNewDoc(d) /\ Processed(d)
         /\ Len(LogOf(d)) = 3 /\ Len(Uploads(LogOf(d))) = 1
         /\ \A i \in 1..3 : LogOf(d)[i].res = "ok"

(* the documents of the batch that errored, judged from the vault and the   *)
(* responses, not from the counters of the source                            *)
BatchDocs == {d \in PushFileList(ThePush.folder) : FileName(d) # MetadataName}
DocErrored(d) == \/ ~CanExtractMetadata(files[d])
                 \/ \E i \in 1..Len(log) : log[i].doc = d /\ log[i].res # "ok"
DocPushed(d) == /\ Len(Puts(LogOf(d))) >= 1
                /\ \A i \in 1..Len(LogOf(d)) : LogOf(d)[i].res = "ok"

(* C2: the trailing pull runs if and only if at least one document was       *)
(* pushed and no document of the batch errored; otherwise the push changes   *)
(* no local file.                                                            *)
C2_PullIffPushedAndNoError ==
    /\ PushLoopOver =>
         (ThePush.pulled <=> ((\E d \in BatchDocs : DocPushed(d))
                              /\ \A d \in BatchDocs : ~DocErrored(d)))
    /\ (ThePush.kind = "push" /\ ~ThePush.pulled) => written = {}

(* C3: after a non-success response to an update call no further call is    *)
(* issued for that document, the document counts as errored, and the         *)
(* trailing pull does not run.                                               *)
C3_FailedUpdateAborts ==
    \A i \in 1..Len(log) :
      (log[i].call = "PUT" /\ log[i].res = "fail") =>
        /\ \A j \in (i + 1)..Len(log) : log[j].doc # log[i].doc
        /\ Processed(log[i].doc) => ThePush.hasError
        /\ ~ThePush.pulled

(* C7: the push reads and pushes only files below the target folder, and     *)
(* never the sentinel.                                                       *)
C7_OnlyFilesUnderFolder ==
    /\ \A i \in 1..Len(log) :
         log[i].call \in {"PUT", "IMG"} =>
            (IsUnder(log[i].doc, ThePush.folder) /\ FileName(log[i].doc) # MetadataName)
    /\ (ThePush.kind = "push" /\ ThePush.pc = "read") =>
         (IsUnder(ThePush.cur, ThePush.folder) /\ FileName(ThePush.cur) # MetadataName)

(* C8: when an image upload is issued for a document pushed with id -1, the  *)
(* local header of the document already holds the id the server returned.    *)
C8_IdPersistedBeforeUpload ==
    (ThePush.kind = "push" /\ ThePush.pc = "upload2" /\ ThePush.cur \in FilePaths) =>
        files[ThePush.cur].fm.id = <<ThePush.page_id>>

(* C9: a failure in one file of the batch is caught: when the loop is over,  *)
(* every file of the batch was processed, every dirty document was counted   *)
(* and a transport call was issued for it.                                   *)
C9_FailureDoesNotStopBatch ==
    PushLoopOver =>
      /\ \A d \in BatchDocs : Processed(d)
      /\ \A d \in BatchDocs : IsDirtyDoc(d) => Len(LogOf(d)) >= 1
      /\ ThePush.changedCount = Cardinality({d \in BatchDocs : IsDirtyDoc(d)})

(* a file failed and a call for another document was issued after that *)
C9_Witness ==
    /\ PushLoopOver
    /\ ThePush.hasError
    /\ \E i \in 1..Len(log) : \E j \in (i + 1)..Len(log) :
         Aborting(log[i]) /\ log[j].doc # log[i].doc

(* every document below the folder is newer on the server side than on disk  *)
(* and is named as its header says                                           *)
FolderUnchanged(folder) ==
    \A d \in DocsUnder(folder) :
      /\ CanExtractMetadata(files[d])
      /\ files[d].fm.last_synced # <<>>
      /\ files[d].fm.last_synced[1] > files[d].mtime
      /\ extractMetadataFromFrontMatter(files[d]).subject = BaseName(d)

(* C10: the push of an unchanged folder issues no call, triggers no pull and *)
(* reports "nothing changed".                                                *)
C10_UnchangedFolderPushesNothing ==
    (VaultAsPushed /\ FolderUnchanged(ThePush.folder)) =>
      /\ log = <<>>
      /\ ~ThePush.pulled
      /\ ThePush.pc = "done" => notices = <<MsgNothingChanged>>

(* C17: after a failed image upload no further call is issued for that      *)
(* document in the batch, and every other dirty document of the batch still  *)
(* gets its calls.                                                           *)
C17_UploadFailureAbortsDocOnly ==
    /\ \A i \in 1..Len(log) :
         (log[i].call = "IMG" /\ log[i].res # "ok") =>
            \A j \in (i + 1)..Len(log) : log[j].doc # log[i].doc
    /\ PushLoopOver =>
         \A d \in BatchDocs : IsDirtyDoc(d) => Len(LogOf(d)) >= 1

(* an upload failed after the creating update of a new document, and a      *)
(* sibling document was pushed after that                                    *)
C17_Witness ==
    /\ PushLoopOver
    /\ \E i \in 1..Len(log) :
         /\ log[i].call = "IMG" /\ log[i].res = "fail"
         /\ i > 1 /\ log[i - 1].call = "PUT" /\ log[i - 1].doc = log[i].doc
         /\ \E j \in (i + 1)..Len(log) :
              log[j].call = "PUT" /\ log[j].res = "ok" /\ log[j].doc # log[i].doc

----------------------------------------------------------------------------
(* Scenario of the token claim: a push or a pull of a book folder, with and *)
(* without an API token in the settings                                      *)

InitToken ==
    /\ InitCommon
    /\ layout_ready = TRUE
    /\ userActs = 0
    /\ apiToken \in BOOLEAN
    /\ now = StartTime
    /\ folders = {Root, G, G2}
    /\ \E ka \in DocKinds, kb \in DocKinds \cup {"none"} :
         /\ files = PushVault(ka, kb, "none")
         /\ remote = PushRemote(ka, kb, "none")

NextToken ==
    \/ (ops["op1"].pc = "idle" /\ BeginPush("op1", G))
    \/ (ops["op1"].pc = "idle" /\ \E c \in BOOLEAN : BeginPull("op1", G, c))
    \/ PushPick("op1")
    \/ PushEval("op1")
    \/ \E out \in Outcomes : PushUpload("op1", out)
    \/ \E out \in Outcomes : PushUpdate("op1", out)
    \/ PushFinish("op1")
    \/ \E out \in Outcomes : PullFetch("op1", out)
    \/ PullPurge("op1")
    \/ \E out \in Outcomes : PullJson("op1", out)
    \/ PullSave("op1")

SpecToken == InitToken /\ [][NextToken]_vars

(* C18: with no API token no request is ever issued, and a pull or a push   *)
(* started in that state changes no local file or folder.                    *)
C18_NoTokenNoRequest ==
    /\ [](~apiToken => log = <<>>)
    /\ [][~apiToken => (files' = files /\ folders' = folders)]_vars

(* without a token: a push found a dirty document and ended, a pull ended   *)
C18_Witness ==
    /\ ~apiToken
    /\ ops["op1"].pc = "done"
    /\ \/ (ops["op1"].kind = "push" /\ ops["op1"].hasError /\ ops["op1"].changedCount > 0)
       \/ (ops["op1"].kind = "pull" /\ notices = <<MsgPullFailed>>)

----------------------------------------------------------------------------
(* Scenario of the pull claims: a folder with local content, and a book *)

MaxPages == 3

TitleQ == <<"A", "?">>
TitleMeta == MetadataBase
TitleColon == <<"C", ":", " ", "d">>
PageTitles == {TitleA, TitleQ, TitleB, TitleMeta, TitleColon}
OldSub == Append(G, TitleOld)
IdOld == 4

(* the local content a pull finds: a synced note, an edited note, a subfolder *)
OldVault(sentinelId) ==
    Merge(Merge(One(Append(G, MetadataName), Sentinel(sentinelId, SyncedAt)),
                One(DocPath(G, TitleOld), DocOfKind("clean", IdOld, TitleOld, BookG))),
          Merge(One(DocPath(G, TitleA), DocOfKind("late", IdA, TitleA, BookG)),
                One(DocPath(OldSub, TitleB), DocOfKind("clean", IdB, TitleB, BookG))))
OldFolders == {Root, G, OldSub}

SentinelIds == {<<BookG>>, <<>>, <<0>>}

(* books of n pages 1..n: page i hangs below an earlier page or at the root *)
BookPages(n) ==
    {b \in [1..n -> [subject : PageTitles, parent_id : {NewId} \cup (1..n),
                     content : {"Hello", NullContent}, open_yn : {"Y"},
                     book_id : {BookG}]] :
        \A i \in 1..n : /\ b[i].parent_id < i
                        /\ i > 1 => b[i].content = "Hello"}

InitPull ==
    /\ InitCommon
    /\ layout_ready = TRUE
    /\ userActs = 0
    /\ apiToken = TRUE
    /\ now = StartTime
    /\ folders = OldFolders
    /\ \E sid \in SentinelIds : files = OldVault(sid)
    /\ \E n \in 1..MaxPages : remote \in BookPages(n)

NextPull ==
    \/ (ops["op1"].pc = "idle" /\ \E c \in BOOLEAN : BeginPull("op1", G, c))
    \/ \E out \in Outcomes : PullFetch("op1", out)
    \/ PullPurge("op1")
    \/ \E out \in Outcomes : PullJson("op1", out)
    \/ PullSave("op1")

SpecPull == InitPull /\ [][NextPull]_vars

ThePull == ops["op1"]
SentinelPath == Append(G, MetadataName)
SentinelHasId == files[SentinelPath].fm.id \notin {<<>>, <<0>>}
GotBook == \E i \in 1..Len(log) : log[i].call = "GET" /\ log[i].res = "ok"

(* C4: with no id in the sentinel, or no success response to the fetch, the  *)
(* pull leaves every local file and folder as it was.                        *)
C4_NoPurgeBeforeFetch ==
    (~SentinelHasId \/ ~GotBook) =>
        /\ files = OldVault(files[SentinelPath].fm.id)
        /\ folders = OldFolders

(* a pull ended on a failed fetch, and one on a sentinel without id, in a    *)
(* folder that holds local documents                                         *)
C4_Witness ==
    /\ ThePull.pc = "done"
    /\ DocsUnder(G) # {}
    /\ \/ (log # <<>> /\ log[Len(log)].res = "fail")
       \/ (log = <<>> /\ ~SentinelHasId)

(* where the pull is to put page i of book b *)
RECURSIVE PageDir(_, _)
PageDir(b, i) ==
    IF b[i].parent_id \notin DOMAIN b THEN G
    ELSE PageFolder(b[b[i].parent_id], PageDir(b, b[i].parent_id))
ExpectedPath(b, i) == PagePath(b[i], PageDir(b, i))
HasChildren(b, i) == \E j \in DOMAIN b : b[j].parent_id = i
ExpectedFolders(b) ==
    {PageFolder(b[i], PageDir(b, i)) : i \in {j \in DOMAIN b : HasChildren(b, j)}}

SiblingsDistinct(b) ==
    \A i, j \in DOMAIN b :
        (i # j /\ b[i].parent_id = b[j].parent_id) =>
            sanitizeFileName(b[i].subject) # sanitizeFileName(b[j].subject)

FilesBelow(folder) == {d \in FilePaths : IsUnder(d, folder)}

PulledOk == ThePull.pc = "done" /\ notices # <<>> /\ notices[Len(notices)] = MsgPulled

(* C5: after a successful pull of a book whose sibling pages have distinct   *)
(* sanitized titles the folder holds, beside the unchanged sentinel, exactly *)
(* one file per page at <parent path>/<sanitized title>.md and a folder per  *)
(* page with children; each header decodes to the page's id and parent_id    *)
(* and each body is the page content.                                        *)
C5_PullMaterializesBook ==
    (PulledOk /\ SiblingsDistinct(ThePull.resp)) =>
      LET b == ThePull.resp IN
      /\ FilesBelow(G) \ {SentinelPath} = {ExpectedPath(b, i) : i \in DOMAIN b}
      /\ {f \in folders : IsUnder(f, G)} = ExpectedFolders(b)
      /\ files[SentinelPath] = Sentinel(<<BookG>>, SyncedAt)
      /\ \A i \in DOMAIN b :
           LET f == files[ExpectedPath(b, i)] IN
           /\ CanExtractMetadata(f)
           /\ extractMetadataFromFrontMatter(f).id = i
           /\ extractMetadataFromFrontMatter(f).parent_id = <<b[i].parent_id>>
           /\ b[i].content # NullContent => f.body = b[i].content

(* a book with a child page was pulled over the local content *)
C5_Witness ==
    /\ PulledOk /\ SiblingsDistinct(ThePull.resp)
    /\ \E i \in DOMAIN ThePull.resp : HasChildren(ThePull.resp, i)
    /\ FilesBelow(G) \ {SentinelPath} = {ExpectedPath(ThePull.resp, i) : i \in DOMAIN ThePull.resp}

----------------------------------------------------------------------------
(* Scenario of the concurrency claims: the user starts up to two sync        *)
(* operations on a book folder, creates and copies notes, and time passes.   *)

TitleNew == <<"N">>
UserPaths == {DocPath(G, TitleA), DocPath(G, TitleNew)}

ConcVault ==
    Merge(One(Append(G, MetadataName), Sentinel(<<BookG>>, SyncedAt)),
          One(DocPath(G, TitleB), DocOfKind("lateimg", IdB, TitleB, BookG)))
ConcRemote == One(IdA, RemotePage(TitleA, BookG))

InitConc ==
    /\ InitCommon
    /\ layout_ready = FALSE
    /\ userActs = MaxUserActs
    /\ apiToken = TRUE
    /\ now = StartTime
    /\ folders = {Root, G}
    /\ files = ConcVault
    /\ remote = ConcRemote

NextConc ==
    \/ (ops["op1"].pc = "idle" /\ BeginPush("op1", G))
    \/ \E c \in BOOLEAN : ops["op2"].pc = "idle" /\ BeginPull("op2", G, c)
    \/ \E o \in Slots : PushPick(o)
    \/ \E o \in Slots : PushEval(o)
    \/ \E o \in Slots : PushUpload(o, "ok")
    \/ \E o \in Slots : PushUpdate(o, "ok")
    \/ \E o \in Slots : PushFinish(o)
    \/ \E o \in Slots : PullFetch(o, "ok")
    \/ \E o \in Slots : PullPurge(o)
    \/ \E o \in Slots : PullJson(o, "ok")
    \/ \E o \in Slots : PullSave(o)
    \/ \E p \in UserPaths : UserCreate(p)
    \/ UserDuplicate(DocPath(G, TitleB), DocPath(G, TitleNew))
    \/ LayoutReady
    \/ \E h \in handlers : HandlerRead(h)
    \/ \E h \in handlers : HandlerStamp(h)
    \/ Tick(MaxTicks * TickMs)

SpecConc == InitConc /\ [][NextConc]_vars

(* C6: no file written by a sync operation is later modified by the          *)
(* creation-event handler, neither stamped nor reclassified as a duplicate.  *)
C6_SyncFilesNotTouchedByHandler == clobbered = {}

(* C15: a creation event that arrives before the layout is ready or while   *)
(* the sync flag is set starts no handler, changes no other file and issues  *)
(* no call; a handler starts only in the step that creates its file, with    *)
(* both gates open, so a dropped event is never replayed.                    *)
C15_GatedCreateIsDropped ==
    /\ [][\A p \in (DOMAIN files') \ (DOMAIN files) :
            (~layout_ready \/ isSyncProcess) =>
                /\ handlers' = handlers
                /\ log' = log
                /\ \A q \in DOMAIN files : files'[q] = files[q]]_vars
    /\ [][\A h \in handlers' \ handlers :
            \/ (h.pc = "stamp" /\ [file |-> h.file, pc |-> "read"] \in handlers)
            \/ (h.pc = "read" /\ h.file \notin DOMAIN files
                 /\ layout_ready /\ ~isSyncProcess)]_vars

(* a note created behind a closed gate is still blank, with no handler for  *)
(* it, after both gates have opened                                          *)
C15_Witness ==
    /\ layout_ready /\ ~isSyncProcess
    /\ handlers = {}
    /\ \E p \in FilePaths : ContentIsBlank(files[p])

----------------------------------------------------------------------------
(* Scenario of the note claims: a book folder with a page and a child page, *)
(* a second book folder and a plain folder; the user creates, copies, moves *)
(* and renames notes and folders while time passes.                          *)

MaxNoteActs == 2

TitleX == <<"X">>
TitleZ == <<"Z">>
P == <<(<<"P">>)>>
GA == Append(G, TitleA)
FreshAt == StartTime - TickMs

ChildDoc(id, subject, book, parent, last_synced, t) ==
    [Doc(id, subject, book, <<last_synced>>, "Hello", t) EXCEPT !.fm.parent_id = <<parent>>]

NotesVault ==
    Merge(Merge(One(Append(G, MetadataName), Sentinel(<<BookG>>, SyncedAt)),
                One(Append(G2, MetadataName), Sentinel(<<BookG2>>, SyncedAt))),
          Merge(One(DocPath(G, TitleA), ChildDoc(IdA, TitleA, BookG, NewId, FreshAt, FreshAt)),
                One(DocPath(GA, TitleX), ChildDoc(IdB, TitleX, BookG, IdA, FreshAt, FreshAt))))
NotesFolders == {Root, G, GA, G2, P}
NewNotePaths == {DocPath(G, TitleNew), DocPath(GA, TitleNew), DocPath(P, TitleNew)}

InitNotes ==
    /\ InitCommon
    /\ apiToken = TRUE
    /\ layout_ready = TRUE
    /\ userActs = MaxNoteActs
    /\ now = StartTime
    /\ folders = NotesFolders
    /\ files = NotesVault
    /\ remote = Empty

IsNote(p) == p \in FilePaths /\ HasMdExtension(p) /\ FileName(p) # MetadataName

NextNotes ==
    \/ \E p \in NewNotePaths : UserCreate(p)
    \/ UserDuplicate(DocPath(G, TitleA), DocPath(G, TitleNew))
    \/ \E src \in FilePaths, dir \in folders :
          IsNote(src) /\ UserMoveFile(src, Append(dir, FileName(src)))
    \/ \E src \in FilePaths :
          IsNote(src) /\ UserMoveFile(src, DocPath(ParentPath(src), TitleZ))
    \/ \E src \in folders : UserRenameFolder(src, Append(ParentPath(src), TitleZ))
    \/ \E e \in events : RenameDeliver(e)
    \/ \E t \in timers : TimerFire(t)
    \/ \E h \in handlers : HandlerRead(h)
    \/ \E h \in handlers : HandlerStamp(h)
    \/ Tick(TickMs)

SpecNotes == InitNotes /\ [][NextNotes]_vars

(* the create handler h examines its file in this step *)
ExaminedBy(h) ==
    /\ h \in handlers /\ h.pc = "read"
    /\ handlers' = handlers \ {h}
    /\ events' = events /\ userActs' = userActs
    /\ h.file \in FilePaths
    /\ ~ContentIsBlank(files[h.file])
    /\ FileName(h.file) # MetadataName
    /\ CanExtractMetadata(files[h.file])
    /\ files[h.file].fm.last_synced # <<>>

Reclassified(p) ==
    /\ files'[p].fm.id = <<NewId>>
    /\ files'[p].fm.last_synced = <<>>

(* C11: for a creation event on a non-empty, non-sentinel file with a       *)
(* last_synced, the handler resets id to -1 and clears last_synced if and    *)
(* only if now - last_synced exceeds 1000 ms; otherwise the file is left     *)
(* untouched.                                                                *)
C11_DuplicateIffGapOverOneSecond ==
    [][\A h \in handlers :
         ExaminedBy(h) =>
            IF now - files[h.file].fm.last_synced[1] > DupThresholdSec * MsPerSec
            THEN Reclassified(h.file)
            ELSE files'[h.file] = files[h.file]]_vars

(* a copy was examined 2 s after its last_synced and was reclassified       *)
C11_Witness ==
    /\ DocPath(G, TitleNew) \in FilePaths
    /\ files[DocPath(G, TitleNew)].fm.id = <<NewId>>
    /\ files[DocPath(G, TitleNew)].fm.subject = TitleA
    /\ files[DocPath(G, TitleNew)].mtime = FreshAt + 2 * DupThresholdSec * MsPerSec

(* the collection folder nearest above p: the id its sentinel carries, -1   *)
(* when no folder above p holds a sentinel                                   *)
SentinelDepths(p) ==
    {k \in 1..(Len(p) - 1) :
        /\ Append(SubSeq(p, 1, k), MetadataName) \in FilePaths
        /\ files[Append(SubSeq(p, 1, k), MetadataName)].hasFM}
NearestCollectionId(p) ==
    IF SentinelDepths(p) = {} THEN NewId
    ELSE LET k == CHOOSE x \in SentinelDepths(p) : \A y \in SentinelDepths(p) : y <= x
         IN OptInt(files[Append(SubSeq(p, 1, k), MetadataName)].fm.id)

(* the documents in the folder above p's folder whose sanitized title is    *)
(* the name of p's folder                                                    *)
ParentDocs(p) ==
    {q \in FilePaths :
        /\ Len(p) >= 3
        /\ ParentPath(q) = ParentPath(ParentPath(p))
        /\ IsNote(q) /\ CanExtractMetadata(files[q])
        /\ sanitizeFileName(BaseName(q)) = FileName(ParentPath(p))}
AtCollectionRoot(p) == Append(ParentPath(p), MetadataName) \in FilePaths
ExpectedParentId(p) ==
    IF AtCollectionRoot(p) \/ ParentDocs(p) = {} THEN NewId
    ELSE files[CHOOSE q \in ParentDocs(p) : TRUE].fm.id[1]

Quiet == handlers = {} /\ events = {}

(* C12: whenever no handler is pending, the header parent_id of every       *)
(* document is the id of the document in the grandparent folder whose        *)
(* sanitized title is the name of the document's folder, or -1 when there is *)
(* none or the file is at the collection root.                               *)
C12_ParentIdMatchesFolder ==
    Quiet =>
      \A d \in FilePaths :
        (IsNote(d) /\ CanExtractMetadata(files[d])) =>
            files[d].fm.parent_id = <<ExpectedParentId(d)>>

(* a note was created below a page folder and stamped with that page's id, *)
(* and a folder was renamed                                                  *)
C12_Witness ==
    /\ Quiet
    /\ DocPath(GA, TitleNew) \in FilePaths
    /\ files[DocPath(GA, TitleNew)].fm.parent_id = <<IdA>>
    /\ P \notin folders

(* addFrontMatterToFile rewrites the header of h's file in this step *)
StampedBy(h) ==
    /\ h \in handlers /\ h.pc = "stamp"
    /\ handlers' = handlers \ {h}
    /\ events' = events /\ userActs' = userActs
    /\ h.file \in FilePaths

(* C16: the stamp of an empty note writes id -1, the book_id of the nearest *)
(* collection above the note (-1 if none) and the parent_id the resolver     *)
(* gives for the note's location.                                            *)
C16_EmptyNoteStamp ==
    [][\A h \in handlers :
         (StampedBy(h) /\ ContentIsBlank(files[h.file])) =>
            /\ files'[h.file].hasFM
            /\ files'[h.file].fm.id = <<NewId>>
            /\ files'[h.file].fm.book_id = <<NearestCollectionId(h.file)>>
            /\ files'[h.file].fm.parent_id = <<getParentId(h.file)>>]_vars

(* new notes were stamped below a page folder of a book and in a plain      *)
(* folder                                                                    *)
C16_Witness ==
    /\ DocPath(GA, TitleNew) \in FilePaths /\ DocPath(P, TitleNew) \in FilePaths
    /\ files[DocPath(GA, TitleNew)].fm.id = <<NewId>>
    /\ files[DocPath(GA, TitleNew)].fm.book_id = <<BookG>>
    /\ files[DocPath(GA, TitleNew)].fm.parent_id = <<IdA>>
    /\ files[DocPath(P, TitleNew)].fm.book_id = <<NewId>>

(* the rename handler runs for event e in this step *)
DeliveredNow(e) == e \in events /\ events' = events \ {e}

(* C19: for the files of a renamed folder the rename handler starts no      *)
(* header rewrite and issues no call, at whatever time their events arrive.  *)
C19_FolderRenameTouchesNoHeader ==
    [][\A e \in events :
         (DeliveredNow(e) /\ e.cause = "folder") =>
            /\ handlers' = handlers
            /\ files' = files
            /\ log' = log]_vars

(* the events of a renamed folder and of a note in it were delivered and    *)
(* the note's header is as it was                                            *)
C19_Witness ==
    /\ Quiet
    /\ Append(G, TitleZ) \in folders
    /\ DocPath(Append(G, TitleZ), TitleX) \in FilePaths
    /\ files[DocPath(Append(G, TitleZ), TitleX)] = NotesVault[DocPath(GA, TitleX)]

(* C20: a note moved or renamed on its own is stamped: the header keeps id  *)
(* and subject, gets the parent_id of the resolver and the book_id of the    *)
(* nearest collection for the new location, and loses last_synced, so the    *)
(* note is dirty.                                                            *)
C20_MovedNoteIsRestamped ==
    /\ [][\A e \in events :
            (DeliveredNow(e) /\ e.cause = "move" /\ IsNote(e.file)) =>
                [file |-> e.file, pc |-> "stamp"] \in handlers']_vars
    /\ [][\A h \in handlers :
            (StampedBy(h) /\ CanExtractMetadata(files[h.file])) =>
                LET f == files[h.file]
                    g == files'[h.file]
                IN /\ g.fm.id = f.fm.id
                   /\ CanExtractMetadata(g)
                   /\ extractMetadataFromFrontMatter(g).subject
                        = extractMetadataFromFrontMatter(f).subject
                   /\ g.fm.parent_id = <<getParentId(h.file)>>
                   /\ g.fm.book_id = <<NearestCollectionId(h.file)>>
                   /\ g.fm.last_synced = <<>>
                   /\ needsSync(extractMetadataFromFrontMatter(g), g.mtime, h.file)]_vars

(* a page was dragged from one book folder to the other and stamped there   *)
C20_Witness ==
    /\ Quiet
    /\ DocPath(G2, TitleX) \in FilePaths
    /\ files[DocPath(G2, TitleX)].fm.id = <<IdB>>
    /\ files[DocPath(G2, TitleX)].fm.book_id = <<BookG2>>
    /\ files[DocPath(G2, TitleX)].fm.last_synced = <<>>

----------------------------------------------------------------------------
(* Scenario of the dirty rule: one document of a book folder, with every    *)
(* combination of file title, header subject, last_synced and modification   *)
(* time, is pushed.                                                          *)

TitleDotMd == <<"a", ".", "m", "d", "x">>
RuleTitles == {TitleA, TitleDotMd}
RuleSubjects == {TitleA, TitleQ, TitleB, TitleDotMd}
RuleSynced == {<<>>, <<SyncedAt>>}
RuleModified == {SyncedAt - TickMs, SyncedAt + SyncEpsilonMs, SyncedAt + SyncEpsilonMs + 1,
                 SyncedAt + SyncEpsilonMs + TickMs}
RuleBodies == {"Hello", "![](p.png)"}

InitRule ==
    /\ InitCommon
    /\ apiToken = TRUE
    /\ layout_ready = TRUE
    /\ userActs = 0
    /\ now = StartTime
    /\ folders = {Root, G}
    /\ \E t \in RuleTitles, subj \in RuleSubjects, ls \in RuleSynced, mt \in RuleModified,
          b \in RuleBodies :
         /\ files = Merge(One(Append(G, MetadataName), Sentinel(<<BookG>>, SyncedAt)),
                          One(DocPath(G, t), Doc(IdA, subj, BookG, ls, b, mt)))
         /\ remote = One(IdA, RemotePage(subj, BookG))

SpecRule == InitRule /\ [][NextPush]_vars

(* the rule as specified: the title is the file name without its extension *)
ReferenceNeedsSync(d) ==
    LET f == files[d]
        subject == YamlSubject(f.fm.subject).val
    IN \/ f.fm.last_synced = <<>>
       \/ f.mtime - f.fm.last_synced[1] > SyncEpsilonMs
       \/ sanitizeFileName(subject) # sanitizeFileName(BaseName(d))

(* C14: the number of files the push found dirty is the number of documents *)
(* that are dirty by the reference rule: no last_synced, or modified more    *)
(* than 1000 ms after last_synced, or sanitized subject different from the   *)
(* sanitized file title.                                                     *)
C14_DirtyDecisionIsReferenceRule ==
    PushLoopOver =>
        ThePush.changedCount =
            Cardinality({d \in BatchDocs : CanExtractMetadata(files[d]) /\ ReferenceNeedsSync(d)})

(* a document modified exactly 1000 ms after last_synced, with matching     *)
(* title, was found clean                                                    *)
C14_Witness ==
    /\ PushLoopOver
    /\ ThePush.changedCount = 0
    /\ \E d \in BatchDocs :
         /\ files[d].fm.last_synced # <<>>
         /\ files[d].mtime - files[d].fm.last_synced[1] = SyncEpsilonMs

----------------------------------------------------------------------------
(* Scenario of dirty detection after a pull: a book is pulled into an empty *)
(* book folder while time passes, and the user retitles a pulled note.       *)

MaxDirtyPages == 2
DirtyTitles == {TitleA, TitleQ, TitleB, TitleDotMd}
RetitleTo == {TitleZ, TitleB}

DirtyBooks(n) ==
    {b \in [1..n -> [subject : DirtyTitles, parent_id : {NewId} \cup (1..n),
                     content : {"Hello"}, open_yn : {"Y"}, book_id : {BookG}]] :
        \A i \in 1..n : b[i].parent_id < i}

InitDirty ==
    /\ InitCommon
    /\ apiToken = TRUE
    /\ layout_ready = TRUE
    /\ userActs = MaxUserActs
    /\ now = StartTime
    /\ folders = {Root, G}
    /\ files = One(Append(G, MetadataName), Sentinel(<<BookG>>, SyncedAt))
    /\ \E n \in 1..MaxDirtyPages : remote \in DirtyBooks(n)

NextDirty ==
    \/ (ops["op1"].pc = "idle" /\ \E c \in BOOLEAN : BeginPull("op1", G, c))
    \/ \E out \in Outcomes : PullFetch("op1", out)
    \/ PullPurge("op1")
    \/ \E out \in Outcomes : PullJson("op1", out)
    \/ PullSave("op1")
    \/ \E src \in FilePaths, t \in RetitleTo :
          IsNote(src) /\ UserMoveFile(src, DocPath(ParentPath(src), t))
    \/ \E e \in events : RenameDeliver(e)
    \/ \E h \in handlers : HandlerStamp(h)
    \/ Tick(TickMs)

SpecDirty == InitDirty /\ [][NextDirty]_vars

DirtyNow(d) == needsSync(extractMetadataFromFrontMatter(files[d]), files[d].mtime, d)

(* C13: a note as the pull wrote it (last_synced set to the time of the     *)
(* write, title and content unchanged since) does not need a push; a note    *)
(* retitled after the pull needs one, whatever its timestamps are.           *)
C13_DirtyAfterPullAndRetitle ==
    \A d \in FilePaths :
        (IsNote(d) /\ CanExtractMetadata(files[d])) =>
            /\ d \in written => ~DirtyNow(d)
            /\ d \notin written => DirtyNow(d)

(* the pull is over: one note is as pulled and clean, another was retitled  *)
(* after being pulled and is dirty although the stamp handler has not run    *)
C13_Witness ==
    /\ ThePull.pc = "done"
    /\ \E d \in written : IsNote(d) /\ ~DirtyNow(d)
    /\ \E d \in FilePaths \ written :
         /\ IsNote(d) /\ CanExtractMetadata(files[d]) /\ DirtyNow(d)
         /\ files[d].fm.last_synced # <<>>

----------------------------------------------------------------------------
(* C21: every update call of a push carries as subject the title of the     *)
(* file on disk, the file name without its extension, and not the subject    *)
(* stored in the header.                                                     *)
C21_UpdateCarriesFileTitle ==
    \A i \in 1..Len(log) :
        log[i].call = "PUT" => log[i].subject = BaseName(log[i].doc)

(* an update was sent for a file whose header subject differs from its title *)
C21_Witness ==
    \E i \in 1..Len(log) :
        /\ log[i].call = "PUT"
        /\ log[i].doc \in FilePaths
        /\ log[i].subject = BaseName(log[i].doc)
        /\ YamlSubject(files[log[i].doc].fm.subject).val # log[i].subject

----------------------------------------------------------------------------
(* Vocabulary of C22: the calls of one file form a block of the log *)

(* the calls up to i that belong to the same file as call i, without a gap *)
BlockStart(i) ==
    CHOOSE k \in 1..i :
        /\ \A m \in k..i : log[m].doc = log[i].doc
        /\ k > 1 => log[k - 1].doc # log[i].doc

(* call i ends the push steps of its file: it threw, or it is a failed      *)
(* upload, or it is an update that is not the creating update of a new file  *)
EndsFileSteps(i) ==
    \/ log[i].res = "throw"
    \/ log[i].call = "IMG" /\ log[i].res # "ok"
    \/ log[i].call = "PUT" /\ ~(BlockStart(i) = i /\ log[i].id = NewId)

(* C22: within one push the files are processed one after another: the      *)
(* calls of a file are contiguous in the log, a call for another file comes  *)
(* only after the push steps of the previous file have completed or failed,  *)
(* and the request of the trailing pull comes after the outcome of every     *)
(* file of the batch is known.                                               *)
C22_FilesPushedOneAfterAnother ==
    /\ \A i \in 1..Len(log), k \in 1..Len(log) :
          (i < k /\ log[i].doc = log[k].doc) => \A j \in i..k : log[j].doc = log[i].doc
    /\ \A i \in 1..(Len(log) - 1) :
          log[i + 1].doc # log[i].doc => (log[i].call # "GET" /\ EndsFileSteps(i))
    /\ (\E i \in 1..Len(log) : log[i].call = "GET") =>
          /\ ThePush.todo = {}
          /\ ThePush.pc \notin {"loop", "read", "upload1", "upload2", "update1", "update2"}

(* two files were pushed with two calls each, then the trailing pull asked  *)
(* for the book                                                              *)
C22_Witness ==
    /\ Len(log) = 5
    /\ log[1].doc = log[2].doc /\ log[3].doc = log[4].doc /\ log[2].doc # log[3].doc
    /\ log[5].call = "GET"

----------------------------------------------------------------------------
(* Scenario of the parent resolver: a collection folder G2 at the top of    *)
(* the vault and a collection folder P/G inside a plain folder, with or      *)
(* without a note named after the collection folder beside it; the user      *)
(* creates notes, which the create handler stamps.                           *)

PG == Append(P, <<"G">>)
PGA == Append(PG, TitleA)
TitleG == <<"G">>
TitleG2 == <<"G", "2">>

NeighbourKinds == {"none", "doc", "plain", "unsynced"}
Neighbour(dir, title, kind, id) ==
    CASE kind = "none"     -> Empty
      [] kind = "doc"      -> One(DocPath(dir, title), Doc(id, title, BookG, <<FreshAt>>, "Hello", FreshAt))
      [] kind = "plain"    -> One(DocPath(dir, title), PlainFile("Hello", FreshAt))
      [] kind = "unsynced" -> One(DocPath(dir, title), Doc(NewId, title, BookG, <<>>, "Hello", FreshAt))

TreeVault(kg, kg2) ==
    Merge(Merge(Merge(One(Append(PG, MetadataName), Sentinel(<<BookG>>, SyncedAt)),
                      One(Append(G2, MetadataName), Sentinel(<<BookG2>>, SyncedAt))),
                One(DocPath(PG, TitleA), Doc(IdA, TitleA, BookG, <<FreshAt>>, "Hello", FreshAt))),
          Merge(Neighbour(P, TitleG, kg, IdB), Neighbour(Root, TitleG2, kg2, IdC)))
TreeFolders == {Root, P, PG, PGA, G2}
TreeNotePaths == {DocPath(PG, TitleNew), DocPath(PGA, TitleNew), DocPath(G2, TitleNew),
                  DocPath(P, TitleNew)}

InitTree ==
    /\ InitCommon
    /\ apiToken = TRUE
    /\ layout_ready = TRUE
    /\ userActs = MaxNoteActs
    /\ now = StartTime
    /\ folders = TreeFolders
    /\ \E kg \in NeighbourKinds, kg2 \in NeighbourKinds : files = TreeVault(kg, kg2)
    /\ remote = Empty

NextTree ==
    \/ \E p \in TreeNotePaths : UserCreate(p)
    \/ \E h \in handlers : HandlerRead(h)
    \/ \E h \in handlers : HandlerStamp(h)
    \/ Tick(TickMs)

SpecTree == InitTree /\ [][NextTree]_vars

(* C23: the stamp of a note that lies directly in a collection folder (the  *)
(* folder holding the sentinel) writes parent_id -1, wherever the collection *)
(* folder is and whatever lies beside it.                                    *)
C23_CollectionRootHasNoParent ==
    [][\A h \in handlers :
         (StampedBy(h) /\ AtCollectionRoot(h.file)) =>
            files'[h.file].fm.parent_id = <<NewId>>]_vars

(* a note created in the collection at the top of the vault was stamped     *)
(* with parent_id -1 although a document named after the collection exists   *)
C23_Witness ==
    /\ DocPath(Root, TitleG2) \in FilePaths
    /\ files[DocPath(Root, TitleG2)].fm.id = <<IdC>>
    /\ DocPath(G2, TitleNew) \in FilePaths
    /\ files[DocPath(G2, TitleNew)].fm.parent_id = <<NewId>>
    /\ files[DocPath(G2, TitleNew)].fm.book_id = <<BookG2>>

----------------------------------------------------------------------------
(* Scenario of the header codec: a record is encoded into the header of a   *)
(* note (getFrontMatter) and the header is decoded again (metadata cache,    *)
(* then PageMetadata.fromFrontMatter); or a header written by hand is        *)
(* decoded.  op1 holds the record and the position, op2 the decoded record.  *)

TitleHash == <<"A", " ", "#", "1">>
TitleDigits == <<"2", "0">>
CodecPath == DocPath(G, TitleA)

CodecIds == {NewId, IdA}
CodecSubjects == {TitleA, TitleQ, TitleHash, TitleColon, TitleDigits}
CodecOptIds == {<<>>, <<NewId>>, <<IdA>>}
CodecSynced == {<<>>, <<SyncedAt>>}
CodecOpen == {"Y", "N", Undefined}

(* headers written by hand: id and subject lines present or not *)
RawIds == {<<>>, <<0>>, <<NewId>>, <<IdA>>}
RawSubjects == {<<>>, TitleA, TitleDigits, Quote(TitleHash)}
RawHeader(id, subject) ==
    [NoFM EXCEPT !.id = id, !.subject = subject, !.book_id = <<BookG>>,
                 !.parent_id = <<NewId>>, !.open_yn = "Y", !.last_synced = <<SyncedAt>>]

InitCodec ==
    /\ nextId = FirstServerId
    /\ isSyncProcess = FALSE
    /\ handlers = {} /\ log = <<>> /\ notices = <<>> /\ written = {} /\ clobbered = {}
    /\ faults = 0 /\ recentRenamedFolderPaths = {} /\ timers = {} /\ events = {}
    /\ apiToken = TRUE /\ layout_ready = TRUE /\ userActs = 0 /\ now = StartTime
    /\ folders = {Root, G}
    /\ remote = Empty
    /\ \/ \E id \in CodecIds, subject \in CodecSubjects, ls \in CodecSynced,
             book \in CodecOptIds, parent \in CodecOptIds, open \in CodecOpen :
            /\ ops = [o \in Slots |->
                        IF o = "op1"
                        THEN [IdleOp EXCEPT !.kind = "record", !.pc = "encode",
                                            !.md = PageMetadata(id, subject, ls, book, parent, open)]
                        ELSE IdleOp]
            /\ files = One(CodecPath, PlainFile("Hello", StartTime))
       \/ \E id \in RawIds, subject \in RawSubjects :
            /\ ops = [o \in Slots |->
                        IF o = "op1" THEN [IdleOp EXCEPT !.kind = "header", !.pc = "decode"]
                        ELSE IdleOp]
            /\ files = One(CodecPath, [hasFM |-> TRUE, fm |-> RawHeader(id, subject),
                                       body |-> "Hello", mtime |-> StartTime])

(* the header text of the record replaces the header of the note, as in the *)
(* writes of part_004:147-149 and lib/md.ts:226-229                          *)
EncodeHeader ==
    /\ ops["op1"].pc = "encode"
    /\ files' = [files EXCEPT ![CodecPath] =
                    [hasFM |-> TRUE, fm |-> getFrontMatter(ops["op1"].md),
                     body |-> getPureContent(@), mtime |-> now]]
    /\ ops' = [ops EXCEPT !["op1"].pc = "decode"]
    /\ UNCHANGED <<apiToken, renameVars, userActs, folders, remote, nextId, now, isSyncProcess,
                   layout_ready, handlers, log, notices, written, clobbered, faults>>

(* extractMetadataFromFrontMatter of the note: returns the record or throws *)
DecodeHeader ==
    /\ ops["op1"].pc = "decode"
    /\ IF CanExtractMetadata(files[CodecPath])
       THEN ops' = [ops EXCEPT !["op1"].pc = "done",
                               !["op2"].md = extractMetadataFromFrontMatter(files[CodecPath])]
       ELSE ops' = [ops EXCEPT !["op1"].pc = "done", !["op1"].hasError = TRUE]
    /\ UNCHANGED <<apiToken, renameVars, userActs, files, folders, remote, nextId, now,
                   isSyncProcess, layout_ready, handlers, log, notices, written, clobbered,
                   faults>>

NextCodec == EncodeHeader \/ DecodeHeader \/ Tick(TickMs)

SpecCodec == InitCodec /\ [][NextCodec]_vars

TheRecord == ops["op1"].md
Decoded == ops["op2"].md
Populated(opt) == opt # <<>>

(* C24: decoding the encoded header of a record gives a record equal to it  *)
(* on id, subject and every optional field the record has a value for.       *)
C24_HeaderRoundTrip ==
    (ops["op1"].kind = "record" /\ ops["op1"].pc = "done") =>
        /\ ~ops["op1"].hasError
        /\ Decoded.id = TheRecord.id
        /\ Decoded.subject = TheRecord.subject
        /\ Populated(TheRecord.book_id) => Decoded.book_id = TheRecord.book_id
        /\ Populated(TheRecord.parent_id) => Decoded.parent_id = TheRecord.parent_id
        /\ Populated(TheRecord.last_synced) => Decoded.last_synced = TheRecord.last_synced
        /\ TheRecord.open_yn # Undefined => Decoded.open_yn = TheRecord.open_yn

(* a record with every field set and a "#" in its subject came back equal   *)
C24_Witness ==
    /\ ops["op1"].kind = "record" /\ ops["op1"].pc = "done" /\ ~ops["op1"].hasError
    /\ TheRecord.subject = Quote(TitleHash)
    /\ TheRecord.book_id = <<IdA>> /\ TheRecord.last_synced = <<SyncedAt>>
    /\ TheRecord.open_yn = "N"
    /\ Decoded = TheRecord

(* C25: decoding succeeds for every header that has an id line and a        *)
(* subject line with a value, and fails for every header in which one of     *)
(* them is missing.                                                          *)
C25_DecodeFailsIffIdOrSubjectMissing ==
    ops["op1"].pc = "done" =>
        (ops["op1"].hasError <=>
            (files[CodecPath].fm.id = <<>> \/ files[CodecPath].fm.subject = <<>>))

(* a header without id line was refused, and so was one without subject     *)
C25_Witness ==
    /\ ops["op1"].kind = "header" /\ ops["op1"].pc = "done" /\ ops["op1"].hasError
    /\ files[CodecPath].fm.id = <<>>
    /\ files[CodecPath].fm.subject = TitleA

----------------------------------------------------------------------------
(* Vocabulary of the flag claims *)

(* the callback of slot o has started its sync operation and not returned *)
InFlight(o) == ops[o].pc \notin {"idle", "done"}

(* C26: whenever at least one sync operation is in flight the flag          *)
(* isSyncProcess is true, also when two operations overlap and one of them   *)
(* ends first.                                                               *)
C26_FlagSetWhileSyncInFlight ==
    (\E o \in Slots : InFlight(o)) => isSyncProcess

(* two operations overlap and the flag is set *)
C26_Witness ==
    /\ \A o \in Slots : InFlight(o)
    /\ isSyncProcess

----------------------------------------------------------------------------
(* Book download: the ribbon icon and the command, part_004:43-65, and      *)
(* ApiClient.downloadBook, part_003:94-109.  The book chosen in the dialog   *)
(* is BookG, whose title is the name of folder G.                            *)

MsgDownloadFailed == "download failed"
MsgDownloaded == "book downloaded"

(* part_004:45-47: the list of books was fetched (which needs the token), a *)
(* book was chosen, isSyncProcess = true                                     *)
BeginDownload(o) ==
    /\ Free(o)
    /\ ~TokenMissing
    /\ isSyncProcess' = TRUE
    /\ ops' = [ops EXCEPT ![o] = [IdleOp EXCEPT !.kind = "download", !.pc = "dlfetch",
                                   !.folder = G]]
    /\ UNCHANGED <<apiToken, renameVars, userActs, files, folders, remote, nextId, now,
                   layout_ready, handlers, log, notices, written, clobbered, faults>>

(* downloadBook has no try block: what it throws leaves the callback before *)
(* its isSyncProcess = false, part_004:47-49                                 *)
DownloadThrown(o) ==
    /\ ops' = [ops EXCEPT ![o] = [EndOp(@) EXCEPT !.hasError = TRUE]]
    /\ UNCHANGED isSyncProcess

(* part_003:95-99: GET /books/{id}/ *)
DownloadFetch(o, out) ==
    /\ ops[o].kind = "download" /\ ops[o].pc = "dlfetch"
    /\ fetchWithAuth(Call("GET", ops[o].folder, BookG, <<>>, out, 0), out)
    /\ IF out = "throw"
       THEN /\ DownloadThrown(o)
            /\ UNCHANGED notices
       ELSE IF ResponseOk(out)
       THEN /\ ops' = [ops EXCEPT ![o].resp = ServerBook(BookG), ![o].pc = "dljson"]
            /\ UNCHANGED <<notices, isSyncProcess>>
       ELSE /\ notices' = Append(notices, MsgDownloadFailed)
            /\ ops' = [ops EXCEPT ![o] = EndOp(@)]
            /\ isSyncProcess' = FALSE
    /\ UNCHANGED <<apiToken, renameVars, userActs, files, folders, remote, nextId, now,
                   layout_ready, handlers, written, clobbered>>

(* saveBookMetadata, lib/md.ts:79-98: the sentinel is rewritten or created *)
SentinelSaved(folder, t) ==
    IF Append(folder, MetadataName) \in folders THEN files
    ELSE Put(files, Append(folder, MetadataName), Sentinel(<<BookG>>, t))

(* part_003:101-105: response.json(), the book folder and its sentinel *)
DownloadJson(o, out) ==
    /\ ops[o].kind = "download" /\ ops[o].pc = "dljson"
    /\ out \in {"ok", "throw"}
    /\ FaultOk(out)
    /\ faults' = FaultsAfter(out)
    /\ IF out = "throw"
       THEN /\ DownloadThrown(o)
            /\ UNCHANGED <<files, folders, handlers>>
       ELSE /\ folders' = FoldersAfterEnsure(folders, ops[o].folder)
            /\ files' = IF ops[o].folder \in folders' THEN SentinelSaved(ops[o].folder, now)
                         ELSE files
            /\ handlers' = IF Append(ops[o].folder, MetadataName) \in (DOMAIN files') \ FilePaths
                            THEN HandlersAfterCreate(Append(ops[o].folder, MetadataName))
                            ELSE handlers
            /\ ops' = [ops EXCEPT ![o].pc = "dlsave",
                                   ![o].stack = WorkItems(RootPages(ops[o].resp), ops[o].folder)]
            /\ UNCHANGED isSyncProcess
    /\ UNCHANGED <<apiToken, renameVars, userActs, remote, nextId, now, layout_ready, log,
                   notices, written, clobbered>>

(* part_003:106-108: savePagesToMarkdown, the notice, and the callback ends *)
DownloadSave(o) ==
    /\ ops[o].kind = "download" /\ ops[o].pc = "dlsave"
    /\ IF ops[o].stack = <<>>
       THEN /\ notices' = Append(notices, MsgDownloaded)
            /\ ops' = [ops EXCEPT ![o] = EndOp(@)]
            /\ isSyncProcess' = FALSE
            /\ UNCHANGED <<files, folders, written, handlers>>
       ELSE /\ SaveStep(o)
            /\ UNCHANGED <<notices, isSyncProcess>>
    /\ UNCHANGED <<apiToken, renameVars, userActs, remote, nextId, now, layout_ready, log,
                   clobbered, faults>>

----------------------------------------------------------------------------
(* Scenario of the flag claims: one sync operation (a book download, a pull *)
(* or a push) runs with transport faults, then the user creates a note.      *)

MaxFlagPages == 2

FlagVault ==
    Merge(One(Append(G, MetadataName), Sentinel(<<BookG>>, SyncedAt)),
          One(DocPath(G, TitleOld), DocOfKind("lateimg", IdOld, TitleOld, BookG)))

InitFlag ==
    /\ InitCommon
    /\ layout_ready = TRUE
    /\ userActs = MaxUserActs
    /\ apiToken \in BOOLEAN
    /\ now = StartTime
    /\ \/ (folders = {Root} /\ files = Empty)
       \/ (folders = {Root, G} /\ files = FlagVault)
    /\ \E n \in 1..MaxFlagPages : remote \in BookPages(n)

NextFlag ==
    \/ (ops["op1"].pc = "idle" /\ BeginDownload("op1"))
    \/ (ops["op1"].pc = "idle" /\ \E c \in BOOLEAN : BeginPull("op1", G, c))
    \/ (ops["op1"].pc = "idle" /\ BeginPush("op1", G))
    \/ \E out \in Outcomes : DownloadFetch("op1", out)
    \/ \E out \in Outcomes : DownloadJson("op1", out)
    \/ DownloadSave("op1")
    \/ PushPick("op1")
    \/ PushEval("op1")
    \/ \E out \in Outcomes : PushUpload("op1", out)
    \/ \E out \in Outcomes : PushUpdate("op1", out)
    \/ PushFinish("op1")
    \/ \E out \in Outcomes : PullFetch("op1", out)
    \/ PullPurge("op1")
    \/ \E out \in Outcomes : PullJson("op1", out)
    \/ PullSave("op1")
    \/ (ops["op1"].pc = "done" /\ UserCreate(DocPath(G, TitleNew)))
    \/ \E h \in handlers : HandlerRead(h)
    \/ \E h \in handlers : HandlerStamp(h)

SpecFlag == InitFlag /\ [][NextFlag]_vars

(* C27: when no sync operation is in flight, the flag isSyncProcess is      *)
(* false, however the operations before ended.                               *)
C27_FlagClearedAfterSync ==
    (\A o \in Slots : ~InFlight(o)) => ~isSyncProcess

(* a pull ended by an exception of the transport and a note created after   *)
(* it was stamped by the create handler                                      *)
C27_Witness ==
    /\ ops["op1"].kind = "pull" /\ ops["op1"].pc = "done"
    /\ \E i \in 1..Len(log) : log[i].res = "throw"
    /\ ~isSyncProcess
    /\ DocPath(G, TitleNew) \in FilePaths /\ files[DocPath(G, TitleNew)].hasFM

----------------------------------------------------------------------------
(* a create handler resumes in this step: it leaves the set of handlers or  *)
(* moves on to its stamp, and no operation and no user action takes a step   *)
HandlerStep == handlers' # handlers /\ ops' = ops /\ userActs' = userActs

(* C28: while a sync operation is in flight no step of a create handler     *)
(* changes the vault; a handler that passed the gate before the operation    *)
(* began neither modifies nor recreates its file.                            *)
C28_HandlerIdleDuringSync ==
    [][((\E o \in Slots : InFlight(o)) /\ HandlerStep) =>
            (files' = files /\ folders' = folders)]_vars

----------------------------------------------------------------------------
(* Scenario of repeated pushes: a book folder with a new note and possibly  *)
(* a sibling is pushed, and when that push has ended it is pushed again.     *)

RepushNewKinds == {"new", "newimg"}
RepushSiblingKinds == {"none", "nofm", "clean", "late"}

InitRepush ==
    /\ InitCommon
    /\ layout_ready = TRUE
    /\ userActs = 0
    /\ apiToken = TRUE
    /\ now = StartTime
    /\ folders = {Root, G, G2}
    /\ \E ka \in RepushNewKinds, kb \in RepushSiblingKinds :
         /\ files = PushVault(ka, kb, "none")
         /\ remote = PushRemote(ka, kb, "none")

NextRepush ==
    \/ (ops["op1"].pc = "idle" /\ BeginPush("op1", G))
    \/ (ops["op1"].pc = "done" /\ ops["op2"].pc = "idle" /\ BeginPush("op2", G))
    \/ \E o \in Slots : PushPick(o)
    \/ \E o \in Slots : PushEval(o)
    \/ \E o \in Slots, out \in Outcomes : PushUpload(o, out)
    \/ \E o \in Slots, out \in Outcomes : PushUpdate(o, out)
    \/ \E o \in Slots : PushFinish(o)
    \/ \E o \in Slots, out \in Outcomes : PullFetch(o, out)
    \/ \E o \in Slots : PullPurge(o)
    \/ \E o \in Slots, out \in Outcomes : PullJson(o, out)
    \/ \E o \in Slots : PullSave(o)

SpecRepush == InitRepush /\ [][NextRepush]_vars

(* the creating updates (id -1) for document d that the server answered     *)
(* with success                                                              *)
Creations(d) ==
    SelectSeq(log, LAMBDA e : e.doc = d /\ e.call = "PUT" /\ e.id = NewId /\ e.res = "ok")

(* C29: over all push batches at most one creating update is answered with *)
(* success for the same local document.                                      *)
C29_OneCreationPerDocument ==
    \A i \in 1..Len(log) : Len(Creations(log[i].doc)) <= 1

(* a new note was created on the server by the first push, the trailing     *)
(* pull stored its id, and the second push found nothing to send             *)
C29_Witness ==
    /\ ops["op2"].kind = "push" /\ ops["op2"].pc = "done" /\ ops["op2"].changedCount = 0
    /\ Len(Creations(DocPath(G, TitleA))) = 1
    /\ DocPath(G, TitleA) \in FilePaths
    /\ files[DocPath(G, TitleA)].fm.id = <<FirstServerId>>

----------------------------------------------------------------------------
(* isNeedSync returns true: it does not throw, and it counted a dirty file *)
IsNeedSyncReturnsTrue(folder) == ~isNeedSyncThrows(folder) /\ isNeedSync(folder)

(* C30: when the loop of a push is over, and the vault is still the one the *)
(* push started on, isNeedSync of the pushed folder returns true if and only *)
(* if the push counted at least one dirty document.                          *)
C30_IsNeedSyncAgreesWithPush ==
    PushLoopOver =>
        (IsNeedSyncReturnsTrue(ThePush.folder) <=> ThePush.changedCount > 0)

(* the push counted two dirty documents and isNeedSync returns true *)
C30_Witness ==
    /\ PushLoopOver
    /\ ThePush.changedCount = 2
    /\ IsNeedSyncReturnsTrue(ThePush.folder)

----------------------------------------------------------------------------
(* C31: whenever no handler is pending, every document below a collection   *)
(* folder carries in its header the id of the sentinel of its nearest        *)
(* collection as book_id.                                                    *)
C31_BookIdIsNearestCollection ==
    Quiet =>
      \A d \in FilePaths :
        (IsNote(d) /\ CanExtractMetadata(files[d]) /\ SentinelDepths(d) # {}) =>
            files[d].fm.book_id = <<NearestCollectionId(d)>>

(* the page of book G was dragged into the folder of book G2 and its header *)
(* now carries the id of G2                                                  *)
C31_Witness ==
    /\ Quiet
    /\ DocPath(G2, TitleA) \in FilePaths
    /\ files[DocPath(G2, TitleA)].fm.id = <<IdA>>
    /\ files[DocPath(G2, TitleA)].fm.book_id = <<BookG2>>

----------------------------------------------------------------------------
(* page i of the book was written to a file by the pull *)
Materialized(i) == \E p \in written : p \in FilePaths /\ files[p].fm.id = <<i>>

(* C32: a pull that reports success has written a file for every page of    *)
(* the book it fetched.                                                      *)
C32_SuccessMeansEveryPageSaved ==
    PulledOk => \A i \in DOMAIN ThePull.resp : Materialized(i)

(* a book of several pages was pulled, every page got its file, and success *)
(* was reported                                                              *)
C32_Witness ==
    /\ PulledOk
    /\ Cardinality(DOMAIN ThePull.resp) >= 2
    /\ \A i \in DOMAIN ThePull.resp : Materialized(i)

----------------------------------------------------------------------------
Shown(msg) == \E i \in 1..Len(notices) : notices[i] = msg

(* C33: the push shows "nothing changed" only when no document of the batch *)
(* was dirty and none errored; after an error no pull runs.                  *)
C33_NothingChangedOnlyWhenClean ==
    /\ (PushLoopOver /\ Shown(MsgNothingChanged)) =>
          /\ \A d \in BatchDocs : ~IsDirtyDoc(d)
          /\ ~ThePush.hasError
    /\ (ThePush.kind = "push" /\ ThePush.hasError) => ~ThePush.pulled

(* a folder of clean documents was pushed and "nothing changed" was shown *)
C33_Witness ==
    /\ PushLoopOver /\ Shown(MsgNothingChanged)
    /\ Cardinality(BatchDocs) >= 2
    /\ \A d \in BatchDocs : ~IsDirtyDoc(d)
    /\ ~ThePush.hasError

----------------------------------------------------------------------------
HasServerId(d) == CanExtractMetadata(files[d]) /\ files[d].fm.id # <<NewId>>
ImagesIn(d) == extractEmbeddedImages(removeFrontMatter(files[d]))

(* C34: for every dirty document whose header id is not -1 every call of the *)
(* push carries that id, the image uploads come before the update, the       *)
(* update is made only after uploads that all succeeded, and it is the only  *)
(* update: when the document is done and no upload failed, the log holds all *)
(* its uploads followed by exactly one update.                               *)
C34_KnownDocUploadsThenOneUpdate ==
    VaultAsPushed =>
      \A d \in BatchDocs :
        (IsDirtyDoc(d) /\ HasServerId(d)) =>
          LET L == LogOf(d) IN
          /\ \A i \in 1..Len(L) :
               /\ L[i].id = files[d].fm.id[1]
               /\ L[i].call = "PUT" =>
                    /\ i = Len(L)
                    /\ \A j \in 1..(i - 1) : L[j].call = "IMG" /\ L[j].res = "ok"
          /\ Len(Puts(L)) <= 1
          /\ Len(Uploads(L)) <= ImagesIn(d)
          /\ (Processed(d) /\ \A i \in 1..Len(L) : L[i].call = "IMG" => L[i].res = "ok")
               => (Len(Puts(L)) = 1 /\ Len(Uploads(L)) = ImagesIn(d))

(* a dirty document with a server id and an image got its upload and then *)
(* its one update                                                         *)
C34_Witness ==
    /\ VaultAsPushed
    /\ \E d \in BatchDocs :
         /\ IsDirtyDoc(d) /\ HasServerId(d) /\ Processed(d)
         /\ ImagesIn(d) >= 1
         /\ Len(LogOf(d)) = ImagesIn(d) + 1
         /\ LogOf(d)[1].call = "IMG" /\ LogOf(d)[1].res = "ok"
         /\ LogOf(d)[Len(LogOf(d))].call = "PUT"

----------------------------------------------------------------------------
(* Scenario of duplicate reclassification: a pulled note of book folder G    *)
(* is copied, empty notes are created, and time passes.  The pulled note     *)
(* has a plain title or one with "#" (quoted by the constructor), and a      *)
(* text after the header that ends with or without a line break.             *)

TitleWithHash == <<"A", "#">>
DupSubjects == {TitleA, Quote(TitleWithHash)}
DupBodies == {"Hello", "Hello\n", "![](p.png)"}
DupSynced == {SyncedAt, FreshAt}

DupVault(subject, body, synced) ==
    Merge(One(Append(G, MetadataName), Sentinel(<<BookG>>, SyncedAt)),
          One(DocPath(G, TitleA), Doc(IdA, subject, BookG, <<synced>>, body, synced)))

InitDup ==
    /\ InitCommon
    /\ apiToken = TRUE
    /\ layout_ready = TRUE
    /\ userActs = MaxNoteActs
    /\ now = StartTime
    /\ folders = {Root, G}
    /\ remote = Empty
    /\ \E subject \in DupSubjects, body \in DupBodies, synced \in DupSynced :
          files = DupVault(subject, body, synced)

NextDup ==
    \/ \E p \in UserPaths : UserCreate(p)
    \/ \E p \in UserPaths : UserDuplicate(DocPath(G, TitleA), p)
    \/ \E h \in handlers : HandlerRead(h)
    \/ \E h \in handlers : HandlerStamp(h)
    \/ Tick(TickMs)

SpecDup == InitDup /\ [][NextDup]_vars

(* C35: when the create handler reclassifies a file as a duplicate, the      *)
(* subject, book_id, parent_id, open_yn and the body of the file are after   *)
(* the step what they were before it.                                        *)
C35_ReclassificationKeepsTheRest ==
    [][\A h \in handlers :
         (ExaminedBy(h) /\ files'[h.file] # files[h.file]) =>
            /\ Reclassified(h.file)
            /\ files'[h.file].fm.subject = files[h.file].fm.subject
            /\ files'[h.file].fm.book_id = files[h.file].fm.book_id
            /\ files'[h.file].fm.parent_id = files[h.file].fm.parent_id
            /\ files'[h.file].fm.open_yn = files[h.file].fm.open_yn
            /\ files'[h.file].body = files[h.file].body]_vars

(* a copy of the note titled with "#" was reclassified and kept its header  *)
(* lines and its text                                                       *)
C35_Witness ==
    /\ DocPath(G, TitleNew) \in FilePaths
    /\ files[DocPath(G, TitleNew)].fm.id = <<NewId>>
    /\ files[DocPath(G, TitleNew)].fm.last_synced = <<>>
    /\ files[DocPath(G, TitleNew)].fm.subject = Quote(TitleWithHash)
    /\ files[DocPath(G, TitleNew)].fm.book_id = <<BookG>>
    /\ files[DocPath(G, TitleNew)].body = "Hello"

----------------------------------------------------------------------------
(* Scenario of the sentinel lookup: folder G and its subfolder G/A each hold *)
(* no sentinel, a sentinel without header, a sentinel whose header has no   *)
(* id, or a sentinel with an id; P holds none.  Notes are created in the     *)
(* three folders and stamped.                                                *)

SentinelKinds == {"none", "plain", "noid", "id"}
SentinelOfKind(dir, kind, id) ==
    CASE kind = "none"  -> Empty
      [] kind = "plain" -> One(Append(dir, MetadataName), PlainFile("Hello", SyncedAt))
      [] kind = "noid"  -> One(Append(dir, MetadataName), Sentinel(<<>>, SyncedAt))
      [] kind = "id"    -> One(Append(dir, MetadataName), Sentinel(<<id>>, SyncedAt))

InitMeta ==
    /\ InitCommon
    /\ apiToken = TRUE
    /\ layout_ready = TRUE
    /\ userActs = MaxNoteActs
    /\ now = StartTime
    /\ folders = {Root, G, GA, P}
    /\ remote = Empty
    /\ \E kg \in SentinelKinds, kga \in SentinelKinds :
          files = Merge(SentinelOfKind(G, kg, BookG), SentinelOfKind(GA, kga, BookG2))

NextMeta ==
    \/ \E p \in NewNotePaths : UserCreate(p)
    \/ \E h \in handlers : HandlerRead(h)
    \/ \E h \in handlers : HandlerStamp(h)
    \/ Tick(TickMs)

SpecMeta == InitMeta /\ [][NextMeta]_vars

(* the folders from dir upwards, the vault root excluded, whose sentinel    *)
(* file has a header                                                        *)
HeaderDepths(dir) == SentinelDepths(Append(dir, MetadataName))
NearestHeader(dir) ==
    LET k == CHOOSE x \in HeaderDepths(dir) : \A y \in HeaderDepths(dir) : y <= x
    IN files[Append(SubSeq(dir, 1, k), MetadataName)].fm

(* C36: for every folder of the tree readTopLevelMetadata returns the       *)
(* header of the sentinel of the nearest folder, from that folder upwards,   *)
(* whose sentinel has a header, and the not-found result when there is none. *)
C36_NearestSentinelWithHeader ==
    \A dir \in folders :
        readTopLevelMetadata(dir) =
            IF HeaderDepths(dir) = {} THEN <<>> ELSE <<NearestHeader(dir).id>>

(* a note created in G/A, whose sentinel has no header, was stamped with    *)
(* the id of the sentinel of G; a note created in P found none              *)
C36_Witness ==
    /\ Append(GA, MetadataName) \in FilePaths
    /\ ~files[Append(GA, MetadataName)].hasFM
    /\ DocPath(GA, TitleNew) \in FilePaths
    /\ files[DocPath(GA, TitleNew)].fm.book_id = <<BookG>>
    /\ DocPath(P, TitleNew) \in FilePaths
    /\ files[DocPath(P, TitleNew)].fm.book_id = <<NewId>>
    /\ readTopLevelMetadata(P) = <<>>

====
